---- MODULE Spec2Model ----
(***************************************************************************)
(* A model of the memoranda memo store: the Memo model (models.rs), the    *)
(* file-backed MemoStore with its synchronous and asynchronous operations  *)
(* (storage.rs) and the MemoCache with its mtime validity check (cache.rs).*)
(*                                                                         *)
(* Strings are sequences of one-character strings, so that                 *)
(* sanitize_filename, Path::extension and Path::with_extension are         *)
(* computed character by character as the code computes them.  All memo    *)
(* files live in one .memoranda directory; a path is the file name in it.  *)
(***************************************************************************)
EXTENDS Integers, Sequences, FiniteSets, TLC

\* ------------------------------------------------------------------ bounds
\* Number of memo identities MemoId::new() may hand out in one run.
MaxIds == 2
\* Last value of the wall clock (file mtimes and memo timestamps are read from it).
MaxClock == 1
\* Number of steps other than reads (store mutations, clock ticks, rewrites
\* by other programs, cache expiries) in one run.
MaxSteps == 3
\* Number of tasks that run update_memo_async concurrently.
MaxTasks == 2

\* The largest max_attempts of a retry configuration.
MaxAttempts == 3

\* The depth of the directory tree beneath the root.
MaxDepth == 2

\* The longest query text, in symbols.
MaxQueryLen == 5

\* The most memos of a listing that is searched.
MaxMemos == 2

\* The longest title whose file name is computed, in characters.
MaxTitleLen == 3

\* ------------------------------------------------------- program constants
MAX_TITLE_LENGTH == 255
MAX_CONTENT_LENGTH == 1048576
MIN_TITLE_LENGTH == 1

\* ------------------------------------------------------------------ inputs
\* Titles a caller may pass: a plain one, one with a trailing dot (same file
\* name as the plain one), one with a path separator, dots only and
\* whitespace only.
Titles == { <<"a">>, <<"a", ".">>, <<"a", "/">>, <<".", ".">>, <<" ">> }

\* Contents a caller may pass: text with its length in bytes.
Contents == { [text |-> "x", len |-> 1], [text |-> "y", len |-> 1], [text |-> "big", len |-> MAX_CONTENT_LENGTH + 1] }

EmptyContent == [text |-> "", len |-> 0]

\* ------------------------------------------------------- strings and paths
ReservedChars == { "/", "\\", ":", "*", "?", "\"", "<", ">", "|" }

\* '\0'..='\x1f'
ControlChars == { "\t", "\n" }

WhitespaceChars == { " ", "\t", "\n" }

RECURSIVE TrimStartDots(_)
TrimStartDots(s) == IF s # <<>> /\ Head(s) = "." THEN TrimStartDots(Tail(s)) ELSE s

RECURSIVE TrimEndDots(_)
TrimEndDots(s) == IF s # <<>> /\ s[Len(s)] = "." THEN TrimEndDots(SubSeq(s, 1, Len(s) - 1)) ELSE s

\* str::trim_matches('.')
TrimDots(s) == TrimEndDots(TrimStartDots(s))

SanitizeChar(c) == IF c \in ReservedChars \/ c \in ControlChars THEN "_" ELSE c

sanitize_filename(title) == TrimDots([i \in 1..Len(title) |-> SanitizeChar(title[i])])

\* Index of the last '.' of a file name, 0 when it has none.
LastDot(name) == LET dots == { i \in 1..Len(name) : name[i] = "." } IN IF dots = {} THEN 0 ELSE CHOOSE i \in dots : \A j \in dots : j <= i

\* Path::extension: none without a dot and none when the only dot leads the name.
Extension(name) == IF LastDot(name) <= 1 THEN <<>> ELSE SubSeq(name, LastDot(name) + 1, Len(name))

\* Path::file_stem
FileStem(name) == IF LastDot(name) <= 1 THEN name ELSE SubSeq(name, 1, LastDot(name) - 1)

\* Path::with_extension
WithExtension(name, ext) == FileStem(name) \o <<".">> \o ext

DotMd == <<".", "m", "d">>

\* target_dir.join(format!("{filename}.md"))
MemoFilePath(title) == sanitize_filename(title) \o DotMd

\* file_path.with_extension("md.tmp")
TempPath(path) == WithExtension(path, <<"m", "d", ".", "t", "m", "p">>)

is_markdown_file(disk, path) == path \in DOMAIN disk /\ Extension(path) = <<"m", "d">>

extract_title_from_filename(path) == [i \in 1..Len(FileStem(path)) |-> IF FileStem(path)[i] = "_" THEN " " ELSE FileStem(path)[i]]

\* -------------------------------------------------------------- Memo model
\* Option<PathBuf>::None
NoPath == <<>>

\* str::trim().is_empty()
IsBlank(s) == \A i \in 1..Len(s) : s[i] \in WhitespaceChars

\* The bytes of a character in UTF-8: the characters of the inputs are ASCII
\* but for U+00E9, a letter of two bytes.
Utf8Width(c) == IF c = "U+00E9" THEN 2 ELSE 1

\* str::len: the length of a string in bytes, one for each character and one
\* more for each character of two bytes.
ByteLen(s) == Len(s) + Cardinality({ i \in 1..Len(s) : Utf8Width(s[i]) = 2 })

validate_title(title) == ~(title = <<>>) /\ ~(ByteLen(title) < MIN_TITLE_LENGTH) /\ ~(ByteLen(title) > MAX_TITLE_LENGTH) /\ ~IsBlank(title)

validate_content(content) == ~(content.len > MAX_CONTENT_LENGTH)

\* Memo::with_file_path, once both validations have passed.
NewMemo(id, title, content, path, now) == [id |-> id, title |-> title, content |-> content, created_at |-> now, updated_at |-> now, tags |-> <<>>, file_path |-> path]

\* Memo::update_content, once validate_content has passed.
update_content(memo, content, now) == [memo EXCEPT !.content = content, !.updated_at = now]

\* Memo::with_file_path as a whole: the memo, or the validation error.
with_file_path(id, title, content, path, now) == IF validate_title(title) /\ validate_content(content) THEN [status |-> "ok", out |-> {NewMemo(id, title, content, path, now)}] ELSE [status |-> "Validation", out |-> {}]

\* Memo::update_content as a whole: the memo is left as it was on an error.
try_update_content(memo, content, now) == IF validate_content(content) THEN [status |-> "ok", out |-> {update_content(memo, content, now)}] ELSE [status |-> "Validation", out |-> {memo}]

\* ------------------------------------------------------ persisted format
\* A file's text: head says how the text starts ("fm": "---\n", a JSON block
\* and "---\n"; "bad": "---\n" and a block that does not parse or does not
\* end; "none": no leading "---\n"), fm holds the parsed block, body the raw
\* text after it (the whole text when there is no block).
EmptyData == [head |-> "none", fm |-> <<>>, body |-> EmptyContent]

\* The block is the memo with file_path set to None; the body is the content.
prepare_memo_file_content(memo) == [head |-> "fm", fm |-> <<[memo EXCEPT !.file_path = NoPath]>>, body |-> memo.content]

\* Ok(None) without a leading "---\n", Err for a block that does not parse.
parse_frontmatter(data) == [ok |-> data.head # "bad", memo |-> IF data.head = "fm" THEN data.fm ELSE <<>>]

\* The identity in the block; callers treat an error like no identity.
extract_memo_id_from_content(data) == IF data.head = "fm" THEN <<data.fm[1].id>> ELSE <<>>

\* The memo of a file: the parsed block with the file's path, or, without a
\* usable block, a new memo (new identity) titled after the file name.
create_memo_from_content_with_fallback(data, path, fresh, now) ==
  LET parsed == parse_frontmatter(data)
      title == extract_title_from_filename(path)
  IN IF parsed.ok /\ parsed.memo # <<>>
       THEN [ok |-> TRUE, memo |-> <<[parsed.memo[1] EXCEPT !.file_path = path]>>]
       ELSE IF validate_title(title) /\ validate_content(data.body)
              THEN [ok |-> TRUE, memo |-> <<NewMemo(fresh, title, data.body, path, now)>>]
              ELSE [ok |-> FALSE, memo |-> <<>>]

\* ------------------------------------------------------------ file system
\* disk maps each existing path to [data, mtime].
FsWrite(disk, path, data, now) == (path :> [data |-> data, mtime |-> now]) @@ disk

FsRemove(disk, path) == [p \in DOMAIN disk \ {path} |-> disk[p]]

\* rename keeps the file's mtime and replaces what was at the target.
FsRename(disk, from, to) == [p \in (DOMAIN disk \ {from}) \cup {to} |-> IF p = to THEN disk[from] ELSE disk[p]]

\* -------------------------------------------------------------- faults
\* What the environment does to one I/O step of an operation: "ok", "once"
\* (the first attempt fails with a transient error, later attempts succeed),
\* "always" (every attempt fails), and for a write "torn" (every attempt
\* fails after the file was created or truncated).
NoFaults == [write |-> "ok", rename |-> "ok", remove |-> "ok"]

FaultSets == { f \in [write : {"ok", "once", "always", "torn"}, rename : {"ok", "once", "always"}, remove : {"ok", "once", "always"}] : Cardinality({ k \in {"write", "rename", "remove"} : f[k] # "ok" }) <= 1 }

\* Whether a faulted step fails: run through retry_with_backoff_sync it fails
\* only when every attempt fails; awaited once it fails when its only
\* attempt fails.
StepFails(fault, retried) == IF retried THEN fault \in {"always", "torn"} ELSE fault # "ok"

\* ---------------------------------------------------------- retry policy
\* What an attempt of an operation gives: "Ok", the kind of an io::Error
\* ("Other" stands for the kinds is_transient_error does not name), or
\* "NonIo" for an error that is no io::Error.
OutcomeKinds == { "Ok", "Interrupted", "PermissionDenied", "Other", "NotFound", "InvalidInput", "InvalidData", "UnexpectedEof", "NonIo" }

\* is_transient_error with NotFound among the kinds worth a retry.
is_transient_error_retrying_not_found(kind) ==
  IF kind # "NonIo"
    THEN CASE kind \in { "TimedOut", "Interrupted", "WouldBlock", "WriteZero" } -> TRUE
           [] kind \in { "PermissionDenied", "AlreadyExists" } -> TRUE
           [] kind \in { "InvalidInput", "InvalidData", "UnexpectedEof" } -> FALSE
           [] OTHER -> TRUE
    ELSE FALSE

\* Whether an error is worth a retry, by its kind.
is_transient_error(kind) ==
  IF kind # "NonIo"
    THEN CASE kind \in { "TimedOut", "Interrupted", "WouldBlock", "WriteZero" } -> TRUE
           [] kind \in { "PermissionDenied", "AlreadyExists" } -> TRUE
           [] kind \in { "NotFound", "InvalidInput", "InvalidData", "UnexpectedEof" } -> FALSE
           [] OTHER -> TRUE
    ELSE FALSE

\* RetryConfig::for_file_io: delays in milliseconds, the multiplier a fraction.
for_file_io == [max_attempts |-> 3, initial_delay |-> 50, max_delay |-> 500, multiplier |-> [num |-> 2, den |-> 1]]

\* Duration::from_millis((delay.as_millis() as f64 * multiplier) as u64).min(max_delay)
NextDelay(config, delay) == LET grown == (delay * config.multiplier.num) \div config.multiplier.den IN IF grown < config.max_delay THEN grown ELSE config.max_delay

\* A call before its first attempt: how often the operation was invoked, the
\* delays slept, the last error (kind and attempt) and what is returned.
Started(config, async, operation) == [config |-> config, async |-> async, operation |-> operation, calls |-> 0, sleeps |-> <<>>, last_error |-> <<>>, result |-> "none"]

\* No call of the retry policy is followed.
NoRetry == <<>>

\* After the loop: last_error.unwrap() panics when no attempt was made.
AfterAttempts(run) == IF run.last_error = <<>> THEN [run EXCEPT !.result = "panic"] ELSE [run EXCEPT !.result = "Err"]

\* The loop of retry_with_backoff (async, with jitter) and of
\* retry_with_backoff_sync from one attempt on.  operation[i] is what the i-th
\* invocation gives; with jitter the random part of a delay is the largest
\* (a tenth of the delay), without it 0.
RECURSIVE Attempts(_, _, _, _)
Attempts(run, jitter, attempt, delay) ==
  LET kind == run.operation[attempt]
      called == [run EXCEPT !.calls = @ + 1]
      failed == [called EXCEPT !.last_error = <<[kind |-> kind, attempt |-> attempt]>>]
      grown == NextDelay(run.config, delay)
      next == IF run.async /\ jitter THEN grown + grown \div 10 ELSE grown
  IN IF attempt > run.config.max_attempts
       THEN AfterAttempts(run)
       ELSE IF kind = "Ok"
              THEN [called EXCEPT !.result = "Ok"]
              ELSE IF attempt < run.config.max_attempts
                     THEN IF ~is_transient_error(kind)
                            THEN AfterAttempts(failed)
                            ELSE Attempts([failed EXCEPT !.sleeps = Append(@, delay)], jitter, attempt + 1, next)
                     ELSE AfterAttempts(failed)

retry_with_backoff(operation, config, jitter) == Attempts(Started(config, TRUE, operation), jitter, 1, config.initial_delay)

retry_with_backoff_sync(operation, config) == Attempts(Started(config, FALSE, operation), FALSE, 1, config.initial_delay)

\* ------------------------------------------------------------ MemoCache
put_memo(cache, memo) == (memo.id :> memo) @@ cache

remove_memo(cache, id) == [i \in DOMAIN cache \ {id} |-> cache[i]]

put_metadata(meta, path, metadata) == (path :> metadata) @@ meta

remove_metadata(meta, path) == [p \in DOMAIN meta \ {path} |-> meta[p]]

\* The comparison the other way round: an older file counts as modified.
ModifiedSinceReversed(current_modified, cached_modified) == current_modified < cached_modified

\* The comparison of the live modification time with the cached one.
ModifiedSince(current_modified, cached_modified) == current_modified > cached_modified

\* A validity check that takes a cached memo whose file is missing for valid.
is_memo_valid_trusting_cache(st, id, path) ==
  IF path \in DOMAIN st.meta
    THEN IF path \in DOMAIN st.disk /\ ModifiedSince(st.disk[path].mtime, st.meta[path].last_modified)
           THEN [res |-> "false", st |-> [st EXCEPT !.cache = remove_memo(st.cache, id), !.meta = remove_metadata(st.meta, path)]]
           ELSE [res |-> "true", st |-> st]
    ELSE [res |-> "false", st |-> st]

\* MemoCache::is_memo_valid: res is "true", "false" or "err"; a newer file
\* evicts the memo and the metadata.
is_memo_valid(st, id, path) ==
  IF path \in DOMAIN st.meta
    THEN IF path \notin DOMAIN st.disk
           THEN [res |-> "err", st |-> st]
           ELSE IF ModifiedSince(st.disk[path].mtime, st.meta[path].last_modified)
                  THEN [res |-> "false", st |-> [st EXCEPT !.cache = remove_memo(st.cache, id), !.meta = remove_metadata(st.meta, path)]]
                  ELSE [res |-> "true", st |-> st]
    ELSE [res |-> "false", st |-> st]

\* MemoStore::create_and_cache_metadata: nothing is cached when the file's
\* metadata cannot be read.
create_and_cache_metadata(st, memo, path) ==
  IF path \in DOMAIN st.disk
    THEN [st EXCEPT !.meta = put_metadata(st.meta, path, [id |-> memo.id, title |-> memo.title, last_modified |-> st.disk[path].mtime])]
    ELSE st

\* ------------------------------------------------------------- MemoStore
\* The store's state as the operations below take and return it:
\*   disk, cache (identity -> memo), meta (path -> metadata), index_dirty,
\*   next_id (the identity MemoId::new() returns next).
\* An operation returns [st, status, out, via]: the state it leaves, "ok" or
\* its error (NotFound, Validation, or the I/O step that failed), the set of
\* memos it returns, and how get_memo_async resolved the identity ("valid":
\* a cache hit that passed the validity check, "stale": a cache hit that did
\* not, "miss": no cache entry; "-" for the synchronous operations).
Ret(st, status, out) == [st |-> st, status |-> status, out |-> out, via |-> "-"]

Via(r, via) == [r EXCEPT !.via = via]

mark_index_dirty(st) == [st EXCEPT !.index_dirty = TRUE]

\* The markdown files whose metadata block carries the identity.
FilesWithId(disk, id) == { p \in DOMAIN disk : is_markdown_file(disk, p) /\ extract_memo_id_from_content(disk[p].data) = <<id>> }

\* The directory scan of get_memo and get_memo_async: the first markdown
\* file whose block carries the identity, loaded in full.
ScanForMemo(disk, id, fresh, now) ==
  IF FilesWithId(disk, id) = {}
    THEN [ok |-> TRUE, memo |-> <<>>]
    ELSE LET p == CHOOSE q \in FilesWithId(disk, id) : TRUE
         IN create_memo_from_content_with_fallback(disk[p].data, p, fresh, now)

\* A save that leaves the temporary file in place when the rename fails.
SaveStepsKeepingTemp(disk, memo, path, now, f, retried) ==
  LET temp == TempPath(path)
      written == FsWrite(disk, temp, prepare_memo_file_content(memo), now)
  IN IF StepFails(f.write, retried)
       THEN [ok |-> FALSE, failed |-> "write", disk |-> IF f.write = "torn" THEN FsWrite(disk, temp, EmptyData, now) ELSE disk]
       ELSE IF StepFails(f.rename, retried)
              THEN [ok |-> FALSE, failed |-> "rename", disk |-> written]
              ELSE [ok |-> TRUE, failed |-> "none", disk |-> FsRename(written, temp, path)]

\* save_memo_to_file and save_memo_to_file_async: write the temporary file,
\* rename it onto the final path, remove it when the rename fails.  retried
\* says whether the steps run through the retry policy.
SaveSteps(disk, memo, path, now, f, retried) ==
  LET temp == TempPath(path)
      written == FsWrite(disk, temp, prepare_memo_file_content(memo), now)
  IN IF StepFails(f.write, retried)
       THEN [ok |-> FALSE, failed |-> "write", disk |-> IF f.write = "torn" THEN FsWrite(disk, temp, EmptyData, now) ELSE disk]
       ELSE IF StepFails(f.rename, retried)
              THEN [ok |-> FALSE, failed |-> "rename", disk |-> IF StepFails(f.remove, retried) THEN written ELSE FsRemove(written, temp)]
              ELSE [ok |-> TRUE, failed |-> "none", disk |-> FsRename(written, temp, path)]

save_memo_to_file(disk, memo, path, now, f) == SaveSteps(disk, memo, path, now, f, TRUE)

save_memo_to_file_async(disk, memo, path, now, f) == SaveSteps(disk, memo, path, now, f, FALSE)

get_memo(st, id, now) ==
  LET found == ScanForMemo(st.disk, id, st.next_id, now)
  IN IF found.ok THEN Ret(st, "ok", { found.memo[i] : i \in DOMAIN found.memo }) ELSE Ret(st, "Validation", {})

get_memo_async(st, id, now) ==
  LET hit == id \in DOMAIN st.cache
      valid == IF hit /\ st.cache[id].file_path # NoPath THEN is_memo_valid(st, id, st.cache[id].file_path) ELSE [res |-> "none", st |-> st]
      st1 == valid.st
      via == IF hit THEN "stale" ELSE "miss"
      found == ScanForMemo(st1.disk, id, st1.next_id, now)
  IN IF hit /\ (st.cache[id].file_path = NoPath \/ valid.res = "true")
       THEN Via(Ret(st, "ok", {st.cache[id]}), "valid")
       ELSE IF ~found.ok
              THEN Via(Ret(st1, "Validation", {}), via)
              ELSE IF found.memo = <<>>
                     THEN Via(Ret(st1, "ok", {}), via)
                     ELSE LET memo == found.memo[1]
                              st2 == [st1 EXCEPT !.cache = put_memo(st1.cache, memo)]
                          IN Via(Ret(create_and_cache_metadata(st2, memo, memo.file_path), "ok", {memo}), via)

create_memo(st, title, content, now, f) ==
  LET file_path == MemoFilePath(title)
      memo == NewMemo(st.next_id, title, content, file_path, now)
      st1 == [st EXCEPT !.next_id = st.next_id + 1]
      saved == save_memo_to_file(st1.disk, memo, file_path, now, f)
      st2 == [st1 EXCEPT !.disk = saved.disk]
  IN IF ~(validate_title(title) /\ validate_content(content))
       THEN Ret(st, "Validation", {})
       ELSE IF ~saved.ok THEN Ret(st2, saved.failed, {}) ELSE Ret(mark_index_dirty(st2), "ok", {memo})

create_memo_async(st, title, content, now, f) ==
  LET file_path == MemoFilePath(title)
      memo == NewMemo(st.next_id, title, content, file_path, now)
      st1 == [st EXCEPT !.next_id = st.next_id + 1]
      saved == save_memo_to_file_async(st1.disk, memo, file_path, now, f)
      st2 == [st1 EXCEPT !.disk = saved.disk]
      st3 == [st2 EXCEPT !.cache = put_memo(st2.cache, memo)]
      st4 == create_and_cache_metadata(st3, memo, file_path)
  IN IF ~(validate_title(title) /\ validate_content(content))
       THEN Ret(st, "Validation", {})
       ELSE IF ~saved.ok THEN Ret(st2, saved.failed, {}) ELSE Ret(mark_index_dirty(st4), "ok", {memo})

update_memo(st, id, content, now, f) ==
  LET got == get_memo(st, id, now)
      old == CHOOSE m \in got.out : TRUE
      memo == update_content(old, content, now)
      saved == save_memo_to_file(got.st.disk, memo, memo.file_path, now, f)
      st1 == [got.st EXCEPT !.disk = saved.disk]
  IN IF got.status # "ok"
       THEN got
       ELSE IF got.out = {}
              THEN Ret(got.st, "NotFound", {})
              ELSE IF ~validate_content(content)
                     THEN Ret(got.st, "Validation", {})
                     ELSE IF memo.file_path = NoPath
                            THEN Ret(mark_index_dirty(got.st), "ok", {memo})
                            ELSE IF ~saved.ok THEN Ret(st1, saved.failed, {}) ELSE Ret(mark_index_dirty(st1), "ok", {memo})

\* An update that drops the cached entries and leaves the next read to
\* reload them.
RefreshCacheByEviction(st, memo) == [st EXCEPT !.cache = remove_memo(st.cache, memo.id), !.meta = remove_metadata(st.meta, memo.file_path)]

\* The cache writes of update_memo_async after the save.
RefreshCache(st, memo) == create_and_cache_metadata([st EXCEPT !.cache = put_memo(st.cache, memo)], memo, memo.file_path)

update_memo_async(st, id, content, now, f) ==
  LET got == get_memo_async(st, id, now)
      old == CHOOSE m \in got.out : TRUE
      memo == update_content(old, content, now)
      saved == save_memo_to_file_async(got.st.disk, memo, memo.file_path, now, f)
      st1 == [got.st EXCEPT !.disk = saved.disk]
  IN IF got.status # "ok"
       THEN got
       ELSE IF got.out = {}
              THEN Via(Ret(got.st, "NotFound", {}), got.via)
              ELSE IF ~validate_content(content)
                     THEN Via(Ret(got.st, "Validation", {}), got.via)
                     ELSE IF memo.file_path = NoPath
                            THEN Via(Ret(mark_index_dirty(got.st), "ok", {memo}), got.via)
                            ELSE IF ~saved.ok THEN Via(Ret(st1, saved.failed, {}), got.via) ELSE Via(Ret(mark_index_dirty(RefreshCache(st1, memo)), "ok", {memo}), got.via)

\* fs::remove_file of a path: NotFound (never retried) when nothing is there.
RemoveFails(disk, path, fault, retried) == path \notin DOMAIN disk \/ StepFails(fault, retried)

delete_memo(st, id, now, f) ==
  LET got == get_memo(st, id, now)
      memo == CHOOSE m \in got.out : TRUE
      st1 == [got.st EXCEPT !.disk = FsRemove(got.st.disk, memo.file_path)]
  IN IF got.status # "ok"
       THEN got
       ELSE IF got.out = {}
              THEN Ret(got.st, "NotFound", {})
              ELSE IF memo.file_path = NoPath
                     THEN Ret(mark_index_dirty(got.st), "ok", {})
                     ELSE IF RemoveFails(got.st.disk, memo.file_path, f.remove, TRUE)
                            THEN Ret(got.st, "remove", {})
                            ELSE Ret(mark_index_dirty(st1), "ok", {})

\* The file and cache writes of delete_memo_async once the memo is found.
RemoveFileAndEntries(st, id, path) == [st EXCEPT !.disk = FsRemove(st.disk, path), !.cache = remove_memo(st.cache, id), !.meta = remove_metadata(st.meta, path)]

delete_memo_async(st, id, now, f) ==
  LET got == get_memo_async(st, id, now)
      memo == CHOOSE m \in got.out : TRUE
  IN IF got.status # "ok"
       THEN got
       ELSE IF got.out = {}
              THEN Via(Ret(got.st, "NotFound", {}), got.via)
              ELSE IF memo.file_path = NoPath
                     THEN Via(Ret(mark_index_dirty(got.st), "ok", {}), got.via)
                     ELSE IF RemoveFails(got.st.disk, memo.file_path, f.remove, FALSE)
                            THEN Via(Ret(got.st, "remove", {}), got.via)
                            ELSE Via(Ret(mark_index_dirty(RemoveFileAndEntries(got.st, id, memo.file_path)), "ok", {}), got.via)

\* The MemoStoreError a call returns.  The step of a save or a delete that
\* failed is an io::Error: awaited it converts into FileOperation; run through
\* retry_with_backoff_sync it comes back as an anyhow::Error, which converts
\* into Validation.
ErrorClass(r) == IF r.status \in {"write", "rename", "remove"} THEN (IF r.async THEN "FileOperation" ELSE "Validation") ELSE r.status

\* list_memos and list_memos_async: every markdown file, loaded; a file that
\* does not load is skipped.  Each memo built by the fallback takes a new
\* identity.
RECURSIVE LoadAll(_, _, _, _)
LoadAll(disk, paths, fresh, now) ==
  IF paths = {}
    THEN [memos |-> {}, next_id |-> fresh]
    ELSE LET p == CHOOSE q \in paths : TRUE
             one == create_memo_from_content_with_fallback(disk[p].data, p, fresh, now)
             used == one.ok /\ parse_frontmatter(disk[p].data).memo = <<>>
             rest == LoadAll(disk, paths \ {p}, IF used THEN fresh + 1 ELSE fresh, now)
         IN [memos |-> rest.memos \cup { one.memo[i] : i \in DOMAIN one.memo }, next_id |-> rest.next_id]

list_memos(st, now) ==
  LET all == LoadAll(st.disk, { p \in DOMAIN st.disk : is_markdown_file(st.disk, p) }, st.next_id, now)
  IN Ret([st EXCEPT !.next_id = all.next_id], "ok", all.memos)

\* --------------------------------------------------------- search index
\* MemoSearcher::new: an index of no memo.  memos is what index_memo was
\* given since then, rebuilds counts how often the index was replaced.
NoIndex == [memos |-> {}, rebuilds |-> 0]

\* The write-locked part of ensure_index_updated: a new index of all memos of
\* the listing, and the flag cleared.
RebuildIndex(index, memos) == [index |-> [memos |-> { [id |-> m.id, title |-> m.title, content |-> m.content] : m \in memos }, rebuilds |-> index.rebuilds + 1], index_dirty |-> FALSE]

\* ensure_index_updated that rebuilds whatever the flag says.
ensure_index_updated_always(is_dirty, index, memos) == RebuildIndex(index, memos)

ensure_index_updated(is_dirty, index, memos) == IF is_dirty THEN RebuildIndex(index, memos) ELSE [index |-> index, index_dirty |-> is_dirty]

RECURSIVE PutAll(_, _)
\* for memo in memos { self.cache.put_memo(memo).await; }
PutAll(cache, memos) == IF memos = {} THEN cache ELSE LET m == CHOOSE x \in memos : TRUE IN PutAll(put_memo(cache, m), memos \ {m})

\* MemoStore::warm_cache: the memos of list_memos_async go into the memo
\* cache, and nothing into the metadata cache; count is memos.len().
warm_cache(st, now) ==
  LET listing == list_memos(st, now)
  IN [st |-> [listing.st EXCEPT !.cache = PutAll(listing.st.cache, listing.out)], status |-> listing.status, out |-> listing.out, via |-> "-", count |-> Cardinality(listing.out)]

\* ------------------------------------------------------------- queries
\* A query text is a sequence of symbols: letters, the blank, the quote, the
\* wildcard characters, and the words AND, OR and NOT, each one symbol.  An
\* Option is a sequence of no or one element.

\* str::find: the position of the first occurrence of pat in s, 0 for none.
Find(s, pat) ==
  LET hits == { i \in 1..(Len(s) - Len(pat) + 1) : SubSeq(s, i, i + Len(pat) - 1) = pat }
  IN IF hits = {} THEN 0 ELSE CHOOSE i \in hits : \A j \in hits : i <= j

\* str::trim and str::trim_matches: s without the leading and trailing
\* symbols of chars.
TrimOf(s, chars) ==
  LET keep == { i \in 1..Len(s) : s[i] \notin chars }
  IN IF keep = {} THEN <<>> ELSE SubSeq(s, CHOOSE i \in keep : \A j \in keep : i <= j, CHOOSE i \in keep : \A j \in keep : i >= j)

\* starts_with('"') && ends_with('"')
IsQuoted(s) == s # <<>> /\ s[1] = "\"" /\ s[Len(s)] = "\""

\* contains('*') || contains('?')
HasWildcard(s) == \E i \in 1..Len(s) : s[i] \in {"*", "?"}

RECURSIVE split_whitespace(_)
split_whitespace(s) ==
  IF s = <<>>
    THEN <<>>
    ELSE IF s[1] = " "
           THEN split_whitespace(Tail(s))
           ELSE LET n == IF Find(s, <<" ">>) = 0 THEN Len(s) + 1 ELSE Find(s, <<" ">>)
                IN <<SubSeq(s, 1, n - 1)>> \o split_whitespace(SubSeq(s, n, Len(s)))

\* SearchQuery::parse_term
parse_term(text) ==
  LET term == TrimOf(text, {" "})
  IN IF IsQuoted(term)
       THEN [kind |-> "Phrase", text |-> TrimOf(term, {"\""})]
       ELSE IF HasWildcard(term) THEN [kind |-> "Wildcard", text |-> term] ELSE [kind |-> "Word", text |-> term]

\* One Boolean node: the query split at position pos, where the operator
\* with its two blanks was found.
BooleanAt(query, pos, operator) == [kind |-> "Boolean", left |-> parse_term(SubSeq(query, 1, pos - 1)), operator |-> operator, right |-> parse_term(SubSeq(query, pos + 3, Len(query)))]

\* parse_boolean_query that looks for OR before AND.
parse_boolean_query_or_first(query) ==
  IF Find(query, <<" ", "OR", " ">>) # 0
    THEN <<BooleanAt(query, Find(query, <<" ", "OR", " ">>), "Or")>>
    ELSE IF Find(query, <<" ", "AND", " ">>) # 0
           THEN <<BooleanAt(query, Find(query, <<" ", "AND", " ">>), "And")>>
           ELSE IF Find(query, <<" ", "NOT", " ">>) # 0
                  THEN <<BooleanAt(query, Find(query, <<" ", "NOT", " ">>), "Not")>>
                  ELSE <<>>

\* SearchQuery::parse_boolean_query
parse_boolean_query(query) ==
  IF Find(query, <<" ", "AND", " ">>) # 0
    THEN <<BooleanAt(query, Find(query, <<" ", "AND", " ">>), "And")>>
    ELSE IF Find(query, <<" ", "OR", " ">>) # 0
           THEN <<BooleanAt(query, Find(query, <<" ", "OR", " ">>), "Or")>>
           ELSE IF Find(query, <<" ", "NOT", " ">>) # 0
                  THEN <<BooleanAt(query, Find(query, <<" ", "NOT", " ">>), "Not")>>
                  ELSE <<>>

\* SearchQuery::new: no term, no phrase, no boolean query (and no tag, date
\* or regex, which parse_query never sets).
NewQuery == [terms |-> <<>>, phrase |-> <<>>, boolean_query |-> <<>>]

\* SearchQuery::parse_query
parse_query(query) ==
  IF Find(query, <<" ", "AND", " ">>) # 0 \/ Find(query, <<" ", "OR", " ">>) # 0 \/ Find(query, <<" ", "NOT", " ">>) # 0
    THEN [NewQuery EXCEPT !.boolean_query = parse_boolean_query(query)]
    ELSE IF IsQuoted(query)
           THEN [NewQuery EXCEPT !.phrase = <<TrimOf(query, {"\""})>>]
           ELSE IF HasWildcard(query)
                  THEN [NewQuery EXCEPT !.boolean_query = <<[kind |-> "Wildcard", text |-> query]>>]
                  ELSE [NewQuery EXCEPT !.terms = split_whitespace(query)]

\* ------------------------------------------------------------- scoring
\* A score is a fraction [num, den] with den >= 0; den = 0 is the infinity
\* that a division by 0.0 gives.  The content of a memo is the one symbol
\* content.text.

\* const FALLBACK_RECENCY_BOOST_DAYS: f64 = 365.0
FALLBACK_RECENCY_BOOST_DAYS == 365

\* str::to_lowercase
to_lowercase(s) == [i \in DOMAIN s |-> CASE s[i] = "A" -> "a" [] s[i] = "B" -> "b" [] OTHER -> s[i]]

\* str::contains of the lowercased texts.
ContainsLower(text, term) == \E i \in 1..(Len(text) - Len(term) + 1) : \A k \in 1..Len(term) : to_lowercase(<<text[i + k - 1]>>) = to_lowercase(<<term[k]>>)

\* MemoSearcher::score_term_match: the score in halves, and whether the term
\* matched.
score_term_match(memo, term, title_score, content_score) ==
  LET in_title == ContainsLower(memo.title, term)
      in_content == ContainsLower(<<memo.content.text>>, term)
  IN [score |-> (IF in_title THEN title_score ELSE 0) + (IF in_content THEN content_score ELSE 0), matches |-> in_title \/ in_content]

\* MemoSearcher::score_term_match_optional
score_term_match_optional(memo, term, title_score, content_score) ==
  IF ContainsLower(memo.title, term)
    THEN <<title_score>>
    ELSE IF ContainsLower(<<memo.content.text>>, term) THEN <<content_score>> ELSE <<>>

\* Whether the pattern of wildcard_to_regex matches a prefix of text: * is
\* any sequence, ? any one symbol, any other symbol itself in either case.
RECURSIVE MatchesHere(_, _)
MatchesHere(pattern, text) ==
  IF pattern = <<>>
    THEN TRUE
    ELSE IF pattern[1] = "*"
           THEN \E k \in 0..Len(text) : MatchesHere(Tail(pattern), SubSeq(text, k + 1, Len(text)))
           ELSE /\ text # <<>>
                /\ pattern[1] = "?" \/ to_lowercase(<<pattern[1]>>) = to_lowercase(<<text[1]>>)
                /\ MatchesHere(Tail(pattern), Tail(text))

\* evaluate_boolean_term whose NOT gives the score of the left side whenever
\* the left side matched.
evaluate_boolean_term_not_as_left(memo, term) ==
  LET Leaf(t) == IF t.kind = "Word" THEN score_term_match_optional(memo, t.text, 4, 2) ELSE score_term_match_optional(memo, t.text, 6, 3)
  IN IF term.kind # "Boolean"
       THEN Leaf(term)
       ELSE CASE term.operator = "And" -> IF Leaf(term.left) # <<>> /\ Leaf(term.right) # <<>> THEN <<Leaf(term.left)[1] + Leaf(term.right)[1]>> ELSE <<>>
              [] term.operator = "Or" -> IF Leaf(term.left) # <<>> /\ Leaf(term.right) # <<>> THEN <<Leaf(term.left)[1] + Leaf(term.right)[1]>> ELSE Leaf(term.left) \o Leaf(term.right)
              [] OTHER -> Leaf(term.left)

\* MemoSearcher::evaluate_boolean_term: the score in halves, or none.
RECURSIVE evaluate_boolean_term(_, _)
evaluate_boolean_term(memo, term) ==
  CASE term.kind = "Word" -> score_term_match_optional(memo, term.text, 4, 2)
    [] term.kind = "Phrase" -> score_term_match_optional(memo, term.text, 6, 3)
    [] term.kind = "Wildcard" ->
         LET search_text == memo.title \o <<" ", memo.content.text>>
         IN IF \E k \in 0..Len(search_text) : MatchesHere(term.text, SubSeq(search_text, k + 1, Len(search_text))) THEN <<2>> ELSE <<>>
    [] OTHER ->
         LET left_score == evaluate_boolean_term(memo, term.left)
             right_score == evaluate_boolean_term(memo, term.right)
         IN CASE term.operator = "And" -> IF left_score # <<>> /\ right_score # <<>> THEN <<left_score[1] + right_score[1]>> ELSE <<>>
              [] term.operator = "Or" -> IF left_score # <<>> /\ right_score # <<>> THEN <<left_score[1] + right_score[1]>> ELSE left_score \o right_score
              [] OTHER -> IF left_score # <<>> /\ right_score = <<>> THEN left_score ELSE <<>>

\* The sum of the scores of the terms; matches when any term matched.
RECURSIVE TermsScore(_, _)
TermsScore(memo, terms) ==
  IF terms = <<>>
    THEN [score |-> 0, matches |-> FALSE]
    ELSE LET first == score_term_match(memo, Head(terms), 4, 2)
             rest == TermsScore(memo, Tail(terms))
         IN [score |-> first.score + rest.score, matches |-> first.matches \/ rest.matches]

\* score_memo_with_config before the recency boost: the terms, the phrase
\* and the boolean query, in halves.
Accumulated(memo, query) ==
  LET terms == TermsScore(memo, query.terms)
      phrase == IF query.phrase = <<>> THEN [score |-> 0, matches |-> FALSE] ELSE score_term_match(memo, query.phrase[1], 6, 3)
      boolean == IF query.boolean_query = <<>> THEN <<>> ELSE evaluate_boolean_term(memo, query.boolean_query[1])
  IN [score |-> terms.score + phrase.score + (IF boolean = <<>> THEN 0 ELSE boolean[1]),
      matches |-> terms.matches \/ phrase.matches \/ boolean # <<>>]

\* Duration::num_days of a difference of times, of two ticks of the clock a
\* day: the whole days, rounded towards zero.
num_days(ticks) == IF ticks >= 0 THEN ticks \div 2 ELSE -((-ticks) \div 2)

\* score *= 1.0 + 1.0 / (1.0 + days / window), of a score in halves:
\* score / 2 * (2 * window + days) / (window + days).
RecencyBoosted(score, days, window) ==
  IF window + days = 0
    THEN [num |-> 1, den |-> 0]
    ELSE IF window + days > 0
           THEN [num |-> score * (2 * window + days), den |-> 2 * (window + days)]
           ELSE [num |-> -(score * (2 * window + days)), den |-> -(2 * (window + days))]

\* MemoSearcher::score_memo_with_config at time now: the score, or none.
score_memo_with_config(memo, query, window, now) ==
  LET accumulated == Accumulated(memo, query)
  IN IF accumulated.matches THEN <<RecencyBoosted(accumulated.score, num_days(now - memo.created_at), window)>> ELSE <<>>

\* f64::partial_cmp of two scores: -1, 0 or 1 for less, equal, greater.
CmpScore(a, b) == IF a.num * b.den < b.num * a.den THEN -1 ELSE IF a.num * b.den > b.num * a.den THEN 1 ELSE 0

\* An order of the scores alone.
CmpResultByScore(self, other) == CmpScore(other.score, self.score)

\* impl Ord for SearchResult: cmp of self with other.
CmpResult(self, other) ==
  IF CmpScore(other.score, self.score) = 0
    THEN (IF other.memo.created_at < self.memo.created_at THEN -1 ELSE IF other.memo.created_at > self.memo.created_at THEN 1 ELSE 0)
    ELSE CmpScore(other.score, self.score)

\* The stable sort of results.sort(): each result goes behind the results
\* before it that do not compare greater.
RECURSIVE Sorted(_)
Sorted(results) ==
  IF results = <<>>
    THEN <<>>
    ELSE LET front == Sorted(SubSeq(results, 1, Len(results) - 1))
             behind == Cardinality({ i \in 1..Len(front) : CmpResult(front[i], results[Len(results)]) <= 0 })
         IN SubSeq(front, 1, behind) \o <<results[Len(results)]>> \o SubSeq(front, behind + 1, Len(front))

\* The results of the memos that score, in the order of the listing.
RECURSIVE Scored(_, _, _, _)
Scored(query, memos, window, now) ==
  IF memos = <<>>
    THEN <<>>
    ELSE LET score == score_memo_with_config(Head(memos), query, window, now)
         IN (IF score = <<>> THEN <<>> ELSE <<[memo |-> Head(memos), score |-> score[1]]>>) \o Scored(query, Tail(memos), window, now)

\* MemoSearcher::search_with_config
search_with_config(query, memos, window, now) == Sorted(Scored(query, memos, window, now))

\* MemoSearcher::search: search_with_config with the fallback constants.
search(query, memos, now) == search_with_config(query, memos, FALLBACK_RECENCY_BOOST_DAYS, now)

\* search_memos that scores only the memos of the listing that the index
\* holds as they are.
search_memos_of_indexed(is_dirty, index, text, listed, now) ==
  LET ensured == ensure_index_updated(is_dirty, index, { listed[i] : i \in DOMAIN listed })
      Indexed(m) == [id |-> m.id, title |-> m.title, content |-> m.content] \in ensured.index.memos
  IN [index |-> ensured.index, index_dirty |-> ensured.index_dirty, out |-> search(parse_query(text), SelectSeq(listed, Indexed), now)]

\* MemoStore::search_memos once the memos are listed: the index brought up
\* to date, the text parsed, the listing searched.
search_memos(is_dirty, index, text, listed, now) ==
  LET ensured == ensure_index_updated(is_dirty, index, { listed[i] : i \in DOMAIN listed })
  IN [index |-> ensured.index, index_dirty |-> ensured.index_dirty, out |-> search(parse_query(text), listed, now)]

\* The orders in which a directory walk can give the memos of a listing.
Orderings(memos) == { listed \in [1..Cardinality(memos) -> memos] : \A m \in memos : \E i \in 1..Cardinality(memos) : listed[i] = m }

\* ------------------------------------------------------------ MCP server
\* The server at the start of run: let mut initialized = false.  handled is
\* the methods of the messages handled so far, executed how often
\* execute_tool was called, response the answer to the last message.
NoResponse == [kind |-> "none", code |-> 0, id |-> 0]

NewServer == [initialized |-> FALSE, handled |-> {}, executed |-> 0, response |-> NoResponse]

\* A message: its method ("-" for none), its id (0 for none), the tool its
\* params name ("-" for no params, "unnamed" for params without a name), and
\* whether the tool fails when it runs.
Messages == [method : { "initialize", "tools/list", "tools/call", "ping", "-" }, id : 0..2, tool : { "-", "unnamed", "list_memos", "no_such_tool" }, fails : BOOLEAN]

\* The JSON-RPC error object with that code, and the result object; both
\* carry the id of the message.
ErrorResponse(code, id) == [kind |-> "error", code |-> code, id |-> id]

ResultResponse(id) == [kind |-> "result", code |-> 0, id |-> id]

\* handle_message_internal without the check of initialized before
\* tools/list.
handle_message_internal_listing_ungated(server, message) ==
  LET seen == [server EXCEPT !.handled = @ \cup {message.method}]
      id == message.id
  IN CASE message.method = "-" -> [server EXCEPT !.response = NoResponse]
       [] message.method = "initialize" -> [seen EXCEPT !.initialized = TRUE, !.response = ResultResponse(id)]
       [] message.method = "tools/list" -> [seen EXCEPT !.response = ResultResponse(id)]
       [] message.method = "tools/call" ->
            IF ~server.initialized
              THEN [seen EXCEPT !.response = ErrorResponse(-32002, id)]
              ELSE IF message.tool \in { "-", "unnamed" }
                     THEN [seen EXCEPT !.response = NoResponse]
                     ELSE [seen EXCEPT !.executed = @ + 1, !.response = IF message.fails \/ message.tool = "no_such_tool" THEN ErrorResponse(-32000, id) ELSE ResultResponse(id)]
       [] OTHER -> [seen EXCEPT !.response = ErrorResponse(-32601, id)]

\* McpServer::handle_message_internal: -32002 is "Server not initialized",
\* -32000 "Tool execution failed", -32601 "Method not found"; a message
\* without a method, and a tools/call without params or tool name, get no
\* answer.
handle_message_internal(server, message) ==
  LET seen == [server EXCEPT !.handled = @ \cup {message.method}]
      id == message.id
  IN CASE message.method = "-" -> [server EXCEPT !.response = NoResponse]
       [] message.method = "initialize" -> [seen EXCEPT !.initialized = TRUE, !.response = ResultResponse(id)]
       [] message.method = "tools/list" ->
            IF ~server.initialized THEN [seen EXCEPT !.response = ErrorResponse(-32002, id)] ELSE [seen EXCEPT !.response = ResultResponse(id)]
       [] message.method = "tools/call" ->
            IF ~server.initialized
              THEN [seen EXCEPT !.response = ErrorResponse(-32002, id)]
              ELSE IF message.tool \in { "-", "unnamed" }
                     THEN [seen EXCEPT !.response = NoResponse]
                     ELSE [seen EXCEPT !.executed = @ + 1, !.response = IF message.fails \/ message.tool = "no_such_tool" THEN ErrorResponse(-32000, id) ELSE ResultResponse(id)]
       [] OTHER -> [seen EXCEPT !.response = ErrorResponse(-32601, id)]

\* ---------------------------------------------------- storage directories
\* A tree: dirs, the directories beneath the root, each the sequence of names
\* that leads to it from the root (<<>>, the root itself, is not named
\* .memoranda); order, the order in which the file system enumerates the
\* entries of a directory; files, the names of the files of each directory.
OneDirectory == [dirs |-> { <<>>, <<".memoranda">> }, order |-> <<".memoranda", "nested">>, files |-> [d \in { <<>>, <<".memoranda">> } |-> {}]]

\* The subdirectories of a directory in the order of enumeration.
ChildrenOf(tree, dir) == LET Present(n) == Append(dir, n) \in tree.dirs IN [i \in 1..Len(SelectSeq(tree.order, Present)) |-> Append(dir, SelectSeq(tree.order, Present)[i])]

IsMemoranda(dir) == dir # <<>> /\ dir[Len(dir)] = ".memoranda"

\* WalkDir: every directory before its entries, the entries of a directory
\* one after the other, each with all that is beneath it.
RECURSIVE Walk(_, _)
Walk(tree, entries) == IF entries = <<>> THEN <<>> ELSE <<Head(entries)>> \o Walk(tree, ChildrenOf(tree, Head(entries))) \o Walk(tree, Tail(entries))

find_memoranda_dirs(tree) == SelectSeq(Walk(tree, <<<<>>>>), IsMemoranda)

\* The loop of find_memoranda_dirs_async: the directory on top of the stack
\* is read, its .memoranda entries are found, its other subdirectories pushed.
RECURSIVE WalkStack(_, _, _)
WalkStack(tree, stack, found) ==
  LET entries == ChildrenOf(tree, stack[Len(stack)])
      IsOther(dir) == ~IsMemoranda(dir)
  IN IF stack = <<>> THEN found ELSE WalkStack(tree, SubSeq(stack, 1, Len(stack) - 1) \o SelectSeq(entries, IsOther), found \o SelectSeq(entries, IsMemoranda))

find_memoranda_dirs_async(tree) == WalkStack(tree, <<<<>>>>, <<>>)

FindDirs(tree, async) == IF async THEN find_memoranda_dirs_async(tree) ELSE find_memoranda_dirs(tree)

\* create_memo and create_memo_async, as far as directories and file names
\* go: the primary directory, the validation, the file.
CreateInTree(tree, title, content, async) ==
  LET dirs == FindDirs(tree, async)
  IN IF dirs = <<>>
       THEN [tree |-> tree, status |-> "NoMemorandaDirectories", out |-> {}]
       ELSE IF ~(validate_title(title) /\ validate_content(content))
              THEN [tree |-> tree, status |-> "Validation", out |-> {}]
              ELSE [tree |-> [tree EXCEPT !.files[dirs[1]] = @ \cup { MemoFilePath(title) }], status |-> "ok", out |-> { [dir |-> dirs[1], name |-> MemoFilePath(title)] }]

\* list_memos and list_memos_async, likewise: the markdown files of every
\* directory found.
ListInTree(tree, async) == UNION { { [dir |-> FindDirs(tree, async)[i], name |-> n] : n \in { g \in tree.files[FindDirs(tree, async)[i]] : Extension(g) = <<"m", "d">> } } : i \in DOMAIN FindDirs(tree, async) }

\* ---------------------------------------------------------- state machine
\* disk, cache, meta, index_dirty, next_id: the store's state (see MemoStore
\* above); now: the wall clock; steps: the steps counted so far; res: the last
\* step and its result; tasks: where each concurrent update_memo_async is.
VARIABLES disk, cache, meta, index_dirty, next_id, now, steps, res, tasks, retry, index, tree, lookup, rpc, sanitized

vars == <<disk, cache, meta, index_dirty, next_id, now, steps, res, tasks, retry, index, tree, lookup, rpc, sanitized>>

Empty == [x \in {} |-> 0]

St == [disk |-> disk, cache |-> cache, meta |-> meta, index_dirty |-> index_dirty, next_id |-> next_id]

\* The last step: the operation, its variant, the identity, title and content
\* it was given, what the environment did to its I/O, and what it returned.
Call(op, async, id, title, content) == [op |-> op, async |-> async, id |-> id, title |-> title, content |-> content, fault |-> NoFaults, status |-> "ok", out |-> {}, via |-> "-"]

Under(call, f) == [call EXCEPT !.fault = f]

\* A step that is no call of the store.
Event(op, id) == Call(op, FALSE, id, <<>>, EmptyContent)

Returned(call, r) == [call EXCEPT !.status = r.status, !.out = r.out, !.via = r.via]

ApplyStore(call, r) ==
  /\ disk' = r.st.disk
  /\ cache' = r.st.cache
  /\ meta' = r.st.meta
  /\ index_dirty' = r.st.index_dirty
  /\ next_id' = r.st.next_id
  /\ res' = Returned(call, r)
  /\ UNCHANGED <<now, retry, index, tree, lookup, rpc, sanitized>>

\* A call that runs from start to end in one step.
Apply(call, r) == ApplyStore(call, r) /\ UNCHANGED tasks

\* A step that counts n against the bound on the length of a run.
CountedAs(n) == steps + n <= MaxSteps /\ steps' = steps + n

Counted == CountedAs(1)

\* An operation whose I/O fails, with its retries, counts twice.
Cost(f) == IF f = NoFaults THEN 1 ELSE 2

Ids == 1..MaxIds

SaveFaults == { f \in FaultSets : f.remove = "ok" }

RemoveFaults == { f \in FaultSets : f.write = "ok" /\ f.rename = "ok" }

Tasks == 1..MaxTasks

\* A task between calls.  In a save, pc is the step that comes next, memo the
\* memo being saved, and fd the paths at which the file it opened is linked
\* (none once the file was replaced by a rename).  In a search, listed is the
\* listing the search made and title the query.  In a read, id is the
\* identity asked for and fd the file whose metadata block carries it.
Idle == [pc |-> "idle", id |-> 0, memo |-> <<>>, content |-> EmptyContent, via |-> "-", fd |-> {}, listed |-> {}]

\* MemoStore::new on a root whose .memoranda directory is empty.
Init ==
  /\ disk = Empty
  /\ cache = Empty
  /\ meta = Empty
  /\ index_dirty = TRUE
  /\ next_id = 1
  /\ now = 0
  /\ steps = 0
  /\ res = Event("new", 0)
  /\ tasks = [w \in Tasks |-> Idle]
  /\ sanitized = <<>>
  /\ rpc = NewServer
  /\ lookup = <<>>
  /\ tree = OneDirectory
  /\ index = NoIndex
  /\ retry = NoRetry

\* The store's operations, with the faults of the environment drawn from F.
CreateMemoIn(F) == \E t \in Titles, c \in Contents, f \in F : CountedAs(Cost(f)) /\ next_id <= MaxIds /\ Apply(Under(Call("create", FALSE, 0, t, c), f), create_memo(St, t, c, now, f))

CreateMemoAsyncIn(F) == \E t \in Titles, c \in Contents, f \in F : CountedAs(Cost(f)) /\ next_id <= MaxIds /\ Apply(Under(Call("create", TRUE, 0, t, c), f), create_memo_async(St, t, c, now, f))

UpdateMemoIn(F) == \E id \in Ids, c \in Contents, f \in F : CountedAs(Cost(f)) /\ Apply(Under(Call("update", FALSE, id, <<>>, c), f), update_memo(St, id, c, now, f))

UpdateMemoAsyncIn(F) == \E id \in Ids, c \in Contents, f \in F : CountedAs(Cost(f)) /\ Apply(Under(Call("update", TRUE, id, <<>>, c), f), update_memo_async(St, id, c, now, f))

DeleteMemoIn(F) == \E id \in Ids, f \in F : CountedAs(Cost(f)) /\ Apply(Under(Call("delete", FALSE, id, <<>>, EmptyContent), f), delete_memo(St, id, now, f))

DeleteMemoAsyncIn(F) == \E id \in Ids, f \in F : CountedAs(Cost(f)) /\ Apply(Under(Call("delete", TRUE, id, <<>>, EmptyContent), f), delete_memo_async(St, id, now, f))

\* The operations in an environment whose I/O steps succeed.
CreateMemo == CreateMemoIn({NoFaults})

CreateMemoAsync == CreateMemoAsyncIn({NoFaults})

UpdateMemo == UpdateMemoIn({NoFaults})

UpdateMemoAsync == UpdateMemoAsyncIn({NoFaults})

DeleteMemo == DeleteMemoIn({NoFaults})

DeleteMemoAsync == DeleteMemoAsyncIn({NoFaults})

GetMemo == UNCHANGED steps /\ \E id \in Ids : Apply(Call("get", FALSE, id, <<>>, EmptyContent), get_memo(St, id, now))

GetMemoAsync == UNCHANGED steps /\ \E id \in Ids : Apply(Call("get", TRUE, id, <<>>, EmptyContent), get_memo_async(St, id, now))

\* list_memos and list_memos_async.
ListMemos == UNCHANGED steps /\ list_memos(St, now).st.next_id <= MaxIds + 1 /\ Apply(Call("list", FALSE, 0, <<>>, EmptyContent), list_memos(St, now))

\* The wall clock advances.
Tick ==
  /\ Counted
  /\ now < MaxClock
  /\ now' = now + 1
  /\ res' = Event("tick", 0)
  /\ UNCHANGED <<disk, cache, meta, index_dirty, next_id, tasks, retry, index, tree, lookup, rpc, sanitized>>

\* Another program rewrites a memo file in place: same identity, new content.
ExternalWrite ==
  \E p \in DOMAIN disk, c \in Contents :
    /\ Counted
    /\ is_markdown_file(disk, p)
    /\ disk[p].data.head = "fm"
    /\ validate_content(c)
    /\ c # disk[p].data.body
    /\ disk' = FsWrite(disk, p, [head |-> "fm", fm |-> <<[disk[p].data.fm[1] EXCEPT !.content = c]>>, body |-> c], now)
    /\ res' = Event("external", disk[p].data.fm[1].id)
    /\ UNCHANGED <<cache, meta, index_dirty, next_id, now, tasks, retry, index, tree, lookup, rpc, sanitized>>

\* The cache drops a memo whose time to live has passed.
ExpireMemo ==
  \E id \in DOMAIN cache :
    /\ Counted
    /\ cache' = remove_memo(cache, id)
    /\ res' = Event("expire_memo", id)
    /\ UNCHANGED <<disk, meta, index_dirty, next_id, now, tasks, retry, index, tree, lookup, rpc, sanitized>>

\* The cache drops a metadata entry whose time to live has passed.
ExpireMetadata ==
  \E p \in DOMAIN meta :
    /\ Counted
    /\ meta' = remove_metadata(meta, p)
    /\ res' = Event("expire_metadata", meta[p].id)
    /\ UNCHANGED <<disk, cache, index_dirty, next_id, now, tasks, retry, index, tree, lookup, rpc, sanitized>>

Next ==
  \/ CreateMemo
  \/ CreateMemoAsync
  \/ GetMemo
  \/ GetMemoAsync
  \/ UpdateMemo
  \/ UpdateMemoAsync
  \/ DeleteMemo
  \/ DeleteMemoAsync
  \/ ListMemos
  \/ Tick
  \/ ExternalWrite
  \/ ExpireMemo
  \/ ExpireMetadata

Spec == Init /\ [][Next]_vars

\* The store in an environment that fails one I/O step of an operation.  Of
\* the reads only get_memo_async is a step: it is the one that changes the
\* store.
NextFaults ==
  \/ CreateMemoIn(SaveFaults)
  \/ CreateMemoAsyncIn(SaveFaults)
  \/ GetMemoAsync
  \/ UpdateMemoIn(SaveFaults)
  \/ UpdateMemoAsyncIn(SaveFaults)
  \/ DeleteMemoIn(RemoveFaults)
  \/ DeleteMemoAsyncIn(RemoveFaults)
  \/ Tick

SpecFaults == Init /\ [][NextFaults]_vars

\* update_memo_async calls that run concurrently, one step of each at a time.
\* tokio::fs runs each file operation on a thread of the blocking pool, so
\* the open (with truncation) and the write of fs::write, and the rename, of
\* one task interleave with those of the others.

\* The store after create_memo_async(title, content) on an empty directory.
StoreWith(title, content) == create_memo_async([disk |-> Empty, cache |-> Empty, meta |-> Empty, index_dirty |-> TRUE, next_id |-> 1], title, content, 0, NoFaults).st

InitConc ==
  \E c \in Contents :
    /\ validate_content(c)
    /\ disk = StoreWith(<<"a">>, c).disk
    /\ cache = StoreWith(<<"a">>, c).cache
    /\ meta = StoreWith(<<"a">>, c).meta
    /\ index_dirty = StoreWith(<<"a">>, c).index_dirty
    /\ next_id = StoreWith(<<"a">>, c).next_id
    /\ now = 0
    /\ steps = 0
    /\ res = Event("new", 0)
    /\ tasks = [w \in Tasks |-> Idle]
    /\ sanitized = <<>>
    /\ rpc = NewServer
    /\ lookup = <<>>
    /\ tree = OneDirectory
    /\ index = NoIndex
    /\ retry = NoRetry

\* update_memo_async up to the save: the memo is looked up and its content
\* replaced; a call that fails here returns at once.
BeginUpdate ==
  \E w \in Tasks, id \in Ids, c \in Contents :
    LET got == get_memo_async(St, id, now)
        old == CHOOSE m \in got.out : TRUE
        starts == got.status = "ok" /\ got.out # {} /\ validate_content(c)
        early == IF got.status # "ok" THEN got ELSE IF got.out = {} THEN Via(Ret(got.st, "NotFound", {}), got.via) ELSE Via(Ret(got.st, "Validation", {}), got.via)
    IN /\ Counted
       /\ tasks[w].pc = "idle"
       /\ cache' = got.st.cache
       /\ meta' = got.st.meta
       /\ tasks' = IF starts THEN [tasks EXCEPT ![w] = [Idle EXCEPT !.pc = "open", !.memo = <<update_content(old, c, now)>>, !.content = c, !.via = got.via]] ELSE tasks
       /\ res' = IF starts THEN Event("begin", id) ELSE Returned(Call("update", TRUE, id, <<>>, c), early)
       /\ UNCHANGED <<disk, index_dirty, next_id, now, retry, index, tree, lookup, rpc, sanitized>>

\* fs::write, first half: the temporary file is created, or truncated when it
\* exists.
OpenTemp ==
  \E w \in Tasks :
    /\ tasks[w].pc = "open"
    /\ disk' = FsWrite(disk, TempPath(tasks[w].memo[1].file_path), EmptyData, now)
    /\ tasks' = [tasks EXCEPT ![w].pc = "write", ![w].fd = {TempPath(tasks[w].memo[1].file_path)}]
    /\ res' = Event("open", tasks[w].memo[1].id)
    /\ UNCHANGED <<cache, meta, index_dirty, next_id, now, steps, retry, index, tree, lookup, rpc, sanitized>>

\* fs::write, second half: the content goes into the file that was opened,
\* wherever it is linked by now.
WriteTemp ==
  \E w \in Tasks :
    /\ tasks[w].pc = "write"
    /\ disk' = [p \in DOMAIN disk |-> IF p \in tasks[w].fd THEN [data |-> prepare_memo_file_content(tasks[w].memo[1]), mtime |-> now] ELSE disk[p]]
    /\ tasks' = [tasks EXCEPT ![w].pc = "rename", ![w].fd = {}]
    /\ res' = Event("write", tasks[w].memo[1].id)
    /\ UNCHANGED <<cache, meta, index_dirty, next_id, now, steps, retry, index, tree, lookup, rpc, sanitized>>

\* fs::rename and the rest of update_memo_async: the rename fails when the
\* temporary file is no longer there.
RenameTemp ==
  \E w \in Tasks :
    LET memo == tasks[w].memo[1]
        path == memo.file_path
        temp == TempPath(path)
        call == Call("update", TRUE, memo.id, <<>>, tasks[w].content)
        moved == [v \in Tasks |-> IF v = w THEN Idle ELSE [tasks[v] EXCEPT !.fd = IF temp \in @ THEN {path} ELSE @ \ {path}]]
        st1 == [St EXCEPT !.disk = FsRename(disk, temp, path)]
    IN /\ tasks[w].pc = "rename"
       /\ IF temp \in DOMAIN disk
            THEN tasks' = moved /\ ApplyStore(call, Via(Ret(mark_index_dirty(RefreshCache(st1, memo)), "ok", {memo}), tasks[w].via))
            ELSE tasks' = [tasks EXCEPT ![w] = Idle] /\ ApplyStore(call, Via(Ret(St, "rename", {}), tasks[w].via))
       /\ UNCHANGED steps

NextConc ==
  \/ BeginUpdate
  \/ OpenTemp
  \/ WriteTemp
  \/ RenameTemp
  \/ GetMemo
  \/ GetMemoAsync
  \/ ListMemos

SpecConc == InitConc /\ [][NextConc]_vars

\* Memo construction and Memo::update_content at the boundaries of validation.
\* A title is one character repeated; a content is known by its length.
BoundaryTitles == { [i \in 1..n |-> c] : c \in { "a", "U+00E9", " " }, n \in { 0, MIN_TITLE_LENGTH, MIN_TITLE_LENGTH + 1, MAX_TITLE_LENGTH \div 2, MAX_TITLE_LENGTH \div 2 + 1, MAX_TITLE_LENGTH - 1, MAX_TITLE_LENGTH, MAX_TITLE_LENGTH + 1 } }

BoundaryContents == { [text |-> IF n = 0 THEN "" ELSE "x", len |-> n] : n \in { 0, 1, MAX_CONTENT_LENGTH - 1, MAX_CONTENT_LENGTH, MAX_CONTENT_LENGTH + 1 } }

\* Memo::with_file_path on a title and a content; res.out holds the memo.
WithFilePath ==
  \E t \in BoundaryTitles, c \in BoundaryContents :
    /\ res' = [Call("with_file_path", FALSE, 0, t, c) EXCEPT !.status = with_file_path(next_id, t, c, NoPath, now).status, !.out = with_file_path(next_id, t, c, NoPath, now).out]
    /\ UNCHANGED <<disk, cache, meta, index_dirty, next_id, now, steps, tasks, retry, index, tree, lookup, rpc, sanitized>>

\* Memo::update_content on the memo that was constructed last.
UpdateContent ==
  \E m \in res.out, c \in BoundaryContents :
    /\ res.op = "with_file_path"
    /\ res' = [Call("update_content", FALSE, m.id, m.title, c) EXCEPT !.status = try_update_content(m, c, now).status, !.out = try_update_content(m, c, now).out]
    /\ UNCHANGED <<disk, cache, meta, index_dirty, next_id, now, steps, tasks, retry, index, tree, lookup, rpc, sanitized>>

NextValidation == WithFilePath \/ UpdateContent

SpecValidation == Init /\ [][NextValidation]_vars

\* The store over files that other programs put into the directory.  A file
\* starts with a block that parses as a memo (serde checks the fields' types,
\* not the title or the content), with a block that does not parse, or with
\* no block at all.
ExternalFiles ==
  { [head |-> "fm", fm |-> <<NewMemo(id, t, c, NoPath, 0)>>, body |-> c] : id \in Ids, t \in { <<"b">>, <<>> }, c \in Contents \ { [text |-> "y", len |-> 1] } }
    \cup { [head |-> h, fm |-> <<>>, body |-> c] : h \in { "none", "bad" }, c \in Contents \ { [text |-> "y", len |-> 1] } }

\* Another program writes a file into the directory.
ExternalCreate ==
  \E p \in { <<"b">> \o DotMd, <<"_">> \o DotMd, <<"b", ".", "t", "x", "t">> }, d \in ExternalFiles :
    /\ Counted
    /\ disk' = FsWrite(disk, p, d, now)
    /\ res' = Event("external", 0)
    /\ UNCHANGED <<cache, meta, index_dirty, next_id, now, tasks, retry, index, tree, lookup, rpc, sanitized>>

NextFiles == ExternalCreate \/ GetMemo \/ GetMemoAsync \/ ListMemos

SpecFiles == Init /\ [][NextFiles]_vars

\* The retry policy on its own: one call, with a configuration and an
\* operation whose attempts give the outcomes drawn here.
RetryConfigs == { [max_attempts |-> n, initial_delay |-> d, max_delay |-> for_file_io.max_delay, multiplier |-> m] : n \in 0..MaxAttempts, d \in { for_file_io.initial_delay, 300, for_file_io.max_delay + 100 }, m \in { for_file_io.multiplier, [num |-> 3, den |-> 2] } }

RetryWithBackoff ==
  /\ retry = NoRetry
  /\ \E config \in RetryConfigs, operation \in [1..MaxAttempts -> OutcomeKinds], jitter \in BOOLEAN :
    /\ retry' = retry_with_backoff(operation, config, jitter)
    /\ UNCHANGED <<disk, cache, meta, index_dirty, next_id, now, steps, res, tasks, index, tree, lookup, rpc, sanitized>>

RetryWithBackoffSync ==
  /\ retry = NoRetry
  /\ \E config \in RetryConfigs, operation \in [1..MaxAttempts -> OutcomeKinds] :
    /\ retry' = retry_with_backoff_sync(operation, config)
    /\ UNCHANGED <<disk, cache, meta, index_dirty, next_id, now, steps, res, tasks, index, tree, lookup, rpc, sanitized>>

NextRetry == RetryWithBackoff \/ RetryWithBackoffSync

SpecRetry == Init /\ [][NextRetry]_vars

\* search_memos: the listing, the index brought up to date, the matches.
SearchMemos ==
  \E query \in { "x", "a" }, listed \in Orderings(list_memos(St, now).out) :
    LET listing == list_memos(St, now)
        searched == search_memos(index_dirty, index, <<query>>, listed, now)
    IN /\ Counted
       /\ listing.st.next_id <= MaxIds + 1
       /\ next_id' = listing.st.next_id
       /\ index' = searched.index
       /\ index_dirty' = searched.index_dirty
       /\ res' = [Call("search", FALSE, 0, <<query>>, EmptyContent) EXCEPT !.out = searched.out]
       /\ UNCHANGED <<disk, cache, meta, now, tasks, retry, tree, lookup, rpc, sanitized>>

\* The store with its search index.
NextSearch ==
  \/ CreateMemo
  \/ CreateMemoAsync
  \/ UpdateMemo
  \/ UpdateMemoAsync
  \/ DeleteMemo
  \/ DeleteMemoAsync
  \/ ExternalWrite
  \/ SearchMemos

SpecSearch == Init /\ [][NextSearch]_vars

\* The same on a store that holds a memo from the start.
SpecSearchFrom == InitConc /\ [][NextSearch]_vars

\* search_memos calls that run concurrently on a store with one memo whose
\* index is dirty.  A call lists the memos, reads the flag under its read
\* lock, rebuilds under the write lock of the index when it read the flag
\* set, and searches.
BeginSearch ==
  \E w \in Tasks, query \in { "x", "a" } :
    /\ tasks[w].pc = "idle"
    /\ list_memos(St, now).st.next_id <= MaxIds + 1
    /\ next_id' = list_memos(St, now).st.next_id
    /\ tasks' = [tasks EXCEPT ![w] = [Idle EXCEPT !.pc = "check", !.listed = list_memos(St, now).out, !.content = [text |-> query, len |-> 1]]]
    /\ res' = Event("list", w)
    /\ UNCHANGED <<disk, cache, meta, index_dirty, now, steps, retry, index, tree, lookup, rpc, sanitized>>

\* let is_dirty = *self.index_dirty.read().unwrap(); a call that reads the
\* flag clear goes on to search.
CheckDirty ==
  \E w \in Tasks :
    /\ tasks[w].pc = "check"
    /\ tasks' = [tasks EXCEPT ![w] = IF index_dirty THEN [@ EXCEPT !.pc = "rebuild"] ELSE Idle]
    /\ \E listed \in Orderings(tasks[w].listed) : res' = IF index_dirty THEN Event("check", w) ELSE [Call("search", FALSE, w, <<tasks[w].content.text>>, EmptyContent) EXCEPT !.out = search(parse_query(<<tasks[w].content.text>>), listed, now)]
    /\ UNCHANGED <<disk, cache, meta, index_dirty, next_id, now, steps, retry, index, tree, lookup, rpc, sanitized>>

\* The call holds the write lock of the index: it rebuilds, clears the flag,
\* and searches.
Rebuild ==
  \E w \in Tasks :
    /\ tasks[w].pc = "rebuild"
    /\ index' = RebuildIndex(index, tasks[w].listed).index
    /\ index_dirty' = RebuildIndex(index, tasks[w].listed).index_dirty
    /\ tasks' = [tasks EXCEPT ![w] = Idle]
    /\ \E listed \in Orderings(tasks[w].listed) : res' = [Call("search", FALSE, w, <<tasks[w].content.text>>, EmptyContent) EXCEPT !.out = search(parse_query(<<tasks[w].content.text>>), listed, now)]
    /\ UNCHANGED <<disk, cache, meta, next_id, now, steps, retry, tree, lookup, rpc, sanitized>>

NextSearchConc == BeginSearch \/ CheckDirty \/ Rebuild

SpecSearchConc == InitConc /\ [][NextSearchConc]_vars

\* The store over a tree of directories: discovery of the .memoranda
\* directories, with files by name only.
Trees ==
  LET DirPaths == UNION { [1..n -> { ".memoranda", "nested" }] : n \in 0..MaxDepth }
      Closed == { E \in SUBSET DirPaths : <<>> \in E /\ \A p \in E : p = <<>> \/ SubSeq(p, 1, Len(p) - 1) \in E }
  IN { [dirs |-> D, order |-> o, files |-> [d \in D |-> {}]] : D \in Closed, o \in { <<".memoranda", "nested">>, <<"nested", ".memoranda">> } }

InitDirs ==
  /\ disk = Empty
  /\ cache = Empty
  /\ meta = Empty
  /\ index_dirty = TRUE
  /\ next_id = 1
  /\ now = 0
  /\ steps = 0
  /\ res = Event("new", 0)
  /\ tasks = [w \in Tasks |-> Idle]
  /\ sanitized = <<>>
  /\ rpc = NewServer
  /\ lookup = <<>>
  /\ retry = NoRetry
  /\ index = NoIndex
  /\ tree \in Trees

CreateMemoInTree ==
  \E t \in { <<"a">>, <<" ">> }, async \in BOOLEAN :
    /\ Counted
    /\ tree' = CreateInTree(tree, t, [text |-> "x", len |-> 1], async).tree
    /\ res' = [Call("create", async, 0, t, [text |-> "x", len |-> 1]) EXCEPT !.status = CreateInTree(tree, t, [text |-> "x", len |-> 1], async).status, !.out = CreateInTree(tree, t, [text |-> "x", len |-> 1], async).out]
    /\ UNCHANGED <<disk, cache, meta, index_dirty, next_id, now, tasks, retry, index, lookup, rpc, sanitized>>

ListMemosInTree ==
  \E async \in BOOLEAN :
    /\ res' = [Call("list", async, 0, <<>>, EmptyContent) EXCEPT !.out = ListInTree(tree, async)]
    /\ UNCHANGED <<disk, cache, meta, index_dirty, next_id, now, steps, tasks, retry, index, tree, lookup, rpc, sanitized>>

\* Another program puts a memo file into a .memoranda directory.
ExternalFileInTree ==
  \E d \in tree.dirs :
    /\ Counted
    /\ IsMemoranda(d)
    /\ tree' = [tree EXCEPT !.files[d] = @ \cup { <<"b">> \o DotMd }]
    /\ res' = Event("external", 0)
    /\ UNCHANGED <<disk, cache, meta, index_dirty, next_id, now, tasks, retry, index, lookup, rpc, sanitized>>

NextDirs == CreateMemoInTree \/ ListMemosInTree \/ ExternalFileInTree

SpecDirs == InitDirs /\ [][NextDirs]_vars

\* SearchQuery::parse_query on its own: every text of up to MaxQueryLen
\* symbols, parsed once.
QueryTexts == UNION { [1..n -> { "a", " ", "\"", "*", "?", "AND", "OR", "NOT" }] : n \in 0..MaxQueryLen }

\* What a call of the searcher leaves: the text, the query parsed from it,
\* the listing searched and the results.
Looked(text, memos, results) == [text |-> text, parsed |-> parse_query(text), memos |-> memos, results |-> results]

ParseQuery ==
  /\ lookup = <<>>
  /\ \E text \in QueryTexts : lookup' = Looked(text, <<>>, <<>>)
  /\ UNCHANGED <<disk, cache, meta, index_dirty, next_id, now, steps, res, tasks, retry, index, tree, rpc, sanitized>>

SpecParse == Init /\ [][ParseQuery]_vars

\* MemoSearcher::search on its own: a query text and a listing of up to
\* MaxMemos memos, created a day before the search, at its time, half a day
\* after it or 366 days after it.
SearchTexts == {
  <<"a">>, <<"B">>, <<"a", " ", "b">>, <<"\"", "a", "\"">>, <<"a", "*">>,
  <<"a", " ", "AND", " ", "b">>, <<"a", " ", "OR", " ", "b">>, <<"a", " ", "NOT", " ", "b">>, <<"\"", "a", "\"", " ", "AND", " ", "B">> }

SearchListing ==
  /\ lookup = <<>>
  /\ \E text \in SearchTexts :
       LET query == parse_query(text)
       IN \E n \in 0..MaxMemos :
            \E shape \in [1..n -> [title : { <<"a">>, <<"A", "b">>, <<"b">> }, text : { "a", "b" }, created : { -2, 0, 1, 732 }]] :
              LET memos == [i \in 1..n |-> NewMemo(i, shape[i].title, [text |-> shape[i].text, len |-> 1], NoPath, shape[i].created)]
              IN lookup' = [text |-> text, parsed |-> query, memos |-> memos, results |-> search(query, memos, now)]
  /\ UNCHANGED <<disk, cache, meta, index_dirty, next_id, now, steps, res, tasks, retry, index, tree, rpc, sanitized>>

SpecQuery == Init /\ [][SearchListing]_vars

\* The loop of McpServer::run: one message of the client after the other.
HandleMessage ==
  /\ Counted
  /\ \E message \in Messages :
       /\ rpc' = handle_message_internal(rpc, message)
       /\ res' = Call(message.method, TRUE, message.id, <<message.tool>>, EmptyContent)
  /\ UNCHANGED <<disk, cache, meta, index_dirty, next_id, now, tasks, retry, index, tree, lookup, sanitized>>

SpecRpc == Init /\ [][HandleMessage]_vars

\* ------------------------------------- concurrent updates, cache writes apart
\* save_memo_to_file_async, last step: the rename alone.  The call goes on to
\* its cache writes, or returns the error when the temporary file is no
\* longer there.
RenameFile ==
  \E w \in Tasks :
    LET memo == tasks[w].memo[1]
        path == memo.file_path
        temp == TempPath(path)
        call == Call("update", TRUE, memo.id, <<>>, tasks[w].content)
        moved == [v \in Tasks |-> IF v = w THEN [tasks[w] EXCEPT !.pc = "put_memo"] ELSE [tasks[v] EXCEPT !.fd = IF temp \in @ THEN {path} ELSE @ \ {path}]]
    IN /\ tasks[w].pc = "rename"
       /\ IF temp \in DOMAIN disk
            THEN /\ tasks' = moved
                 /\ disk' = FsRename(disk, temp, path)
                 /\ res' = Event("rename", memo.id)
                 /\ UNCHANGED <<cache, meta, index_dirty, next_id, now, retry, index, tree, lookup, rpc, sanitized>>
            ELSE tasks' = [tasks EXCEPT ![w] = Idle] /\ ApplyStore(call, Via(Ret(St, "rename", {}), tasks[w].via))
       /\ UNCHANGED steps

\* update_memo_async after the save: self.cache.put_memo(memo.clone()).
PutMemo ==
  \E w \in Tasks :
    /\ tasks[w].pc = "put_memo"
    /\ cache' = put_memo(cache, tasks[w].memo[1])
    /\ tasks' = [tasks EXCEPT ![w].pc = "put_metadata"]
    /\ res' = Event("put_memo", tasks[w].memo[1].id)
    /\ UNCHANGED <<disk, meta, index_dirty, next_id, now, steps, retry, index, tree, lookup, rpc, sanitized>>

\* update_memo_async to its end: create_and_cache_metadata, which reads the
\* modification time the file has by now, mark_index_dirty and Ok(memo).
PutMetadata ==
  \E w \in Tasks :
    LET memo == tasks[w].memo[1]
        call == Call("update", TRUE, memo.id, <<>>, tasks[w].content)
    IN /\ tasks[w].pc = "put_metadata"
       /\ tasks' = [tasks EXCEPT ![w] = Idle]
       /\ ApplyStore(call, Via(Ret(mark_index_dirty(create_and_cache_metadata(St, memo, memo.file_path)), "ok", {memo}), tasks[w].via))
       /\ UNCHANGED steps

NextConcCache ==
  \/ BeginUpdate
  \/ OpenTemp
  \/ WriteTemp
  \/ RenameFile
  \/ PutMemo
  \/ PutMetadata
  \/ GetMemoAsync
  \/ Tick

SpecConcCache == InitConc /\ [][NextConcCache]_vars

\* --------------------------------- searches running beside the mutations
\* Updates and deletes of the stored memo that run to their end between the
\* steps of the searches.
NextSearchMut ==
  \/ BeginSearch
  \/ CheckDirty
  \/ Rebuild
  \/ UpdateMemo
  \/ DeleteMemo

SpecSearchMut == InitConc /\ [][NextSearchMut]_vars

\* ------------------------------------------- reads running beside deletes
\* get_memo and get_memo_async up to the identity check of the files: the
\* directory scan reads the metadata block of each markdown file.  A call
\* that is served from the cache, or finds no file of the identity, returns;
\* the others go on to load the file they found.
ScanFiles ==
  \E w \in Tasks, id \in Ids, async \in BOOLEAN :
    LET hit == async /\ id \in DOMAIN cache
        valid == IF hit /\ cache[id].file_path # NoPath THEN is_memo_valid(St, id, cache[id].file_path) ELSE [res |-> "none", st |-> St]
        cached == hit /\ (cache[id].file_path = NoPath \/ valid.res = "true")
        files == FilesWithId(disk, id)
        call == Call("get", async, id, <<>>, EmptyContent)
    IN /\ tasks[w].pc = "idle"
       /\ IF cached \/ files = {}
            THEN Apply(call, IF async THEN get_memo_async(St, id, now) ELSE get_memo(St, id, now))
            ELSE /\ cache' = valid.st.cache
                 /\ meta' = valid.st.meta
                 /\ tasks' = [tasks EXCEPT ![w] = [Idle EXCEPT !.pc = "load", !.id = id, !.fd = {CHOOSE q \in files : TRUE}, !.via = IF ~async THEN "-" ELSE IF hit THEN "stale" ELSE "miss"]]
                 /\ res' = Event("scan", id)
                 /\ UNCHANGED <<disk, index_dirty, next_id, now, retry, index, tree, lookup, rpc, sanitized>>
       /\ UNCHANGED steps

\* load_memo_from_file(&path)? and load_memo_from_file_async(&path).await?:
\* the file is read a second time, and a file that is gone by now is an I/O
\* error of the call.  get_memo_async then fills the caches.
LoadFile ==
  \E w \in Tasks :
    LET path == CHOOSE q \in tasks[w].fd : TRUE
        async == tasks[w].via # "-"
        call == Call("get", async, tasks[w].id, <<>>, EmptyContent)
        found == create_memo_from_content_with_fallback(disk[path].data, path, next_id, now)
        memo == found.memo[1]
        st2 == [St EXCEPT !.cache = put_memo(cache, memo)]
    IN /\ tasks[w].pc = "load"
       /\ tasks' = [tasks EXCEPT ![w] = Idle]
       /\ ApplyStore(call, Via(IF path \notin DOMAIN disk
                                 THEN Ret(St, "read", {})
                                 ELSE IF ~found.ok
                                        THEN Ret(St, "Validation", {})
                                        ELSE IF async THEN Ret(create_and_cache_metadata(st2, memo, path), "ok", {memo}) ELSE Ret(St, "ok", {memo}), tasks[w].via))
       /\ UNCHANGED steps

NextGetDelete ==
  \/ ScanFiles
  \/ LoadFile
  \/ DeleteMemo
  \/ DeleteMemoAsync

SpecGetDelete == InitConc /\ [][NextGetDelete]_vars

\* ------------------------------------------------- file names of titles
\* The characters of the titles whose file names are computed: a letter, the
\* blank, the dot, the nine characters and a control character that
\* sanitize_filename replaces, and U+007F, the control character after the
\* range '\0'..='\x1f'.
TitleChars == { "a", " ", ".", "\t", "U+007F" } \cup ReservedChars

PathTitles == UNION { [1..n -> TitleChars] : n \in 1..MaxTitleLen }

\* create_memo up to the save, for a title that Memo::with_file_path
\* accepts: the file name, the file and its temporary file, as paths within
\* the primary .memoranda directory.
NameFile ==
  /\ sanitized = <<>>
  /\ \E title \in PathTitles :
       /\ validate_title(title)
       /\ sanitized' = [title |-> title, filename |-> sanitize_filename(title), file_path |-> MemoFilePath(title), temp_file_path |-> TempPath(MemoFilePath(title))]
  /\ UNCHANGED <<disk, cache, meta, index_dirty, next_id, now, steps, res, tasks, retry, index, tree, lookup, rpc>>

SpecPath == Init /\ [][NameFile]_vars

\* ------------------------------------------------------- cache warm-up
\* A call of warm_cache; the id of the call record is the count it returned.
WarmCache ==
  /\ Counted
  /\ list_memos(St, now).st.next_id <= MaxIds + 1
  /\ Apply(Call("warm", TRUE, warm_cache(St, now).count, <<>>, EmptyContent), warm_cache(St, now))

NextWarm ==
  \/ CreateMemo
  \/ CreateMemoAsync
  \/ WarmCache
  \/ GetMemoAsync
  \/ ListMemos

SpecWarm == Init /\ [][NextWarm]_vars

\* ---------------------------------------------------------------------------
\* Properties
\* ---------------------------------------------------------------------------

\* What a caller compares of two memos.
SameMemo(a, b) == a.id = b.id /\ a.title = b.title /\ a.content = b.content /\ a.tags = b.tags

\* The memo files that carry an identity, whatever their name.
FilesOf(d, id) == { p \in DOMAIN d : d[p].data.head = "fm" /\ d[p].data.fm[1].id = id }

IsMutation(r) == r.op \in {"create", "update", "delete"}

\* The file a mutation writes: the one create_memo names after the title, or
\* the one the memo was found with.
TargetOf(r) == IF r.op = "create" THEN { MemoFilePath(r.title) } ELSE { m.file_path : m \in (IF r.async THEN get_memo_async(St, r.id, now) ELSE get_memo(St, r.id, now)).out }

\* What a caller sees of the memos an operation returns.
Shown(out) == { [id |-> m.id, title |-> m.title, content |-> m.content] : m \in out }

\* The synchronous method called where the asynchronous one was.
SyncOutcome(r) ==
  CASE r.op = "create" -> create_memo(St, r.title, r.content, now, r.fault)
    [] r.op = "update" -> update_memo(St, r.id, r.content, now, r.fault)
    [] r.op = "delete" -> delete_memo(St, r.id, now, r.fault)
    [] OTHER -> get_memo(St, r.id, now)

\* A memo is cached and the modification time of its file is strictly greater
\* than the one the metadata cache recorded.
ModifiedOutside(id) == id \in DOMAIN cache /\ cache[id].file_path \in DOMAIN meta /\ cache[id].file_path \in DOMAIN disk /\ disk[cache[id].file_path].mtime > meta[cache[id].file_path].last_modified

\* C1 (round trip): a create_memo that succeeded, followed directly by
\* get_memo of the identity it returned, in the same variant (synchronous or
\* asynchronous), returns a memo with the same id, title, content and tags.
C1_RoundTrip == [][(res.op = "create" /\ res.status = "ok" /\ res'.op = "get" /\ res'.async = res.async /\ res'.id \in { m.id : m \in res.out }) => (res'.status = "ok" /\ \E m \in res.out, g \in res'.out : SameMemo(m, g))]_vars

\* C2 (read your writes): directly after a create, update or delete that
\* returned success, in either variant, get_memo and get_memo_async of that
\* identity observe it: the created or updated content, or none after a
\* delete, whatever the caches held.
C2_ReadYourWrites == [][(IsMutation(res) /\ res.status = "ok" /\ res'.op = "get" /\ (res.op = "create" => res'.id \in { m.id : m \in res.out }) /\ (res.op # "create" => res'.id = res.id)) => (res'.status = "ok" /\ IF res.op = "delete" THEN res'.out = {} ELSE \E g \in res'.out : g.content = res.content)]_vars

\* C3 (atomic publish): with updates running concurrently, every memo that
\* get_memo, get_memo_async or list_memos returns has the complete content of
\* some version that was written, and a memo whose file is only ever replaced
\* is always found.
C3_AtomicPublish ==
  (res.op \in {"get", "list"}) =>
    /\ \A m \in res.out : m.id = 1 /\ m.content \in Contents
    /\ (res.op = "list" \/ res.id = 1) => res.out # {}

\* C4 (all or nothing): a create, update or delete either succeeds, with the
\* new file in place (none after a delete) and both variants of get_memo
\* returning what the file holds, or it returns an error and leaves every
\* file, the memo cache and the metadata cache as they were.
C4_AllOrNothing ==
  [][IsMutation(res') =>
       IF res'.status = "ok"
         THEN /\ \A w \in res'.out : w.file_path \in DOMAIN disk' /\ disk'[w.file_path].data = prepare_memo_file_content(w)
              /\ \A id \in { w.id : w \in res'.out } \cup (IF res'.op = "create" THEN {} ELSE {res'.id}) :
                   /\ get_memo_async(St', id, now).out = get_memo(St', id, now).out
                   /\ get_memo(St', id, now).out = (IF res'.op = "delete" THEN {} ELSE res'.out)
         ELSE UNCHANGED <<disk, cache, meta>>]_vars

C6_UpdateRefreshesCache == (res.op = "update" /\ res.async /\ res.status = "ok") => (/\ res.id \in DOMAIN cache /\ cache[res.id].content = res.content /\ cache[res.id].file_path \in DOMAIN disk /\ cache[res.id].file_path \in DOMAIN meta /\ meta[cache[res.id].file_path].last_modified = disk[cache[res.id].file_path].mtime /\ LET got == get_memo_async(St, res.id, now) IN got.via = "valid" /\ \E g \in got.out : g.content = res.content)

\* The update replaced content that a read had cached.
C6_Witness == res.op = "update" /\ res.async /\ res.status = "ok" /\ res.via = "valid" /\ \E m \in res.out : m.content = res.content /\ m.content.text = "y" /\ disk[m.file_path].data.body = res.content /\ m.updated_at > m.created_at

\* C7 (external modification detection): when a cached memo's file has a
\* modification time strictly greater than the cached one, get_memo_async
\* returns what a load from disk returns, and neither cache keeps the stale
\* entry.
C7_ReloadsModifiedFile == [][(res'.op = "get" /\ res'.async /\ ModifiedOutside(res'.id)) => (/\ res'.via = "stale" /\ res'.status = get_memo(St, res'.id, now).status /\ res'.out = get_memo(St, res'.id, now).out /\ (res'.id \in DOMAIN cache' => cache'[res'.id] \in res'.out) /\ LET p == cache[res'.id].file_path IN p \in DOMAIN meta' => meta'[p].last_modified = disk[p].mtime)]_vars

\* A read found the cached memo stale and returned the content that another
\* program wrote: the file is newer than the memo's own update stamp.
C7_Witness == res.op = "get" /\ res.async /\ res.via = "stale" /\ \E g \in res.out : disk[g.file_path].mtime > g.updated_at /\ g.content = disk[g.file_path].data.body /\ cache[g.id] = g

C9_SyncAsyncEquivalent == [][(res'.async /\ res'.op \in {"create", "get", "update", "delete"}) => (/\ res'.status = SyncOutcome(res').status /\ Shown(res'.out) = Shown(SyncOutcome(res').out) /\ disk' = SyncOutcome(res').st.disk)]_vars

\* C10 (not found): update and delete of an identity that no memo file
\* carries return MemoNotFound and change no file, no cache entry and not the
\* index-dirty flag.
C10_NotFoundChangesNothing == [][(res'.op \in {"update", "delete"} /\ FilesOf(disk, res'.id) = {}) => (res'.status = "NotFound" /\ UNCHANGED <<disk, cache, meta, index_dirty>>)]_vars


\* C11: constructing a memo is rejected for a title of length 0, a title of
\* whitespace only or a title of more than 255 characters and accepted for
\* every other title of 1 to 255 characters, as long as the content has at
\* most 1,048,576 bytes; update_content accepts a content exactly when it has
\* at most 1,048,576 bytes.
C11_ValidationBoundaries ==
  /\ res.op = "with_file_path" =>
       (res.status = "ok" <=> (Len(res.title) \in MIN_TITLE_LENGTH..MAX_TITLE_LENGTH /\ ~IsBlank(res.title) /\ res.content.len <= MAX_CONTENT_LENGTH))
  /\ res.op = "update_content" => (res.status = "ok" <=> res.content.len <= MAX_CONTENT_LENGTH)

\* A title of 128 two-byte characters with a content of 1 MiB is rejected.
C11_Witness == res.op = "with_file_path" /\ Len(res.title) = MAX_TITLE_LENGTH \div 2 + 1 /\ ByteLen(res.title) = MAX_TITLE_LENGTH + 1 /\ res.content.len = MAX_CONTENT_LENGTH /\ res.status = "Validation"


\* A title of 1 to 255 characters that is not blank, a content of at most
\* 1,048,576 bytes.
ValidMemo(m) == Len(m.title) \in MIN_TITLE_LENGTH..MAX_TITLE_LENGTH /\ ~IsBlank(m.title) /\ m.content.len <= MAX_CONTENT_LENGTH

\* C12 (memo validity): every memo that the store returns from a create, an
\* update, a read or a list, and every memo in its cache, has a title of 1 to
\* 255 characters that is not blank and a content of at most 1,048,576 bytes.
C12_MemosAreValid ==
  /\ \A m \in res.out : ValidMemo(m)
  /\ \A id \in DOMAIN cache : ValidMemo(cache[id])

\* A read returned the memo of a file whose block carries an empty title.
C12_Witness == res.op = "get" /\ \E m \in res.out : m.title = <<>> /\ m.file_path \in DOMAIN disk

\* C13 (graceful listing): a list returns without error exactly one memo for
\* every file with the .md extension, and for a file whose block is missing or
\* does not parse that memo has the title derived from the file name and the
\* raw text of the file as its content.
C13_ListsEveryFile ==
  res.op = "list" =>
    /\ res.status = "ok"
    /\ \A p \in DOMAIN disk : Extension(p) = <<"m", "d">> => Cardinality({ m \in res.out : m.file_path = p }) = 1
    /\ \A m \in res.out : m.file_path \in DOMAIN disk /\ Extension(m.file_path) = <<"m", "d">>
    /\ \A q \in DOMAIN disk : (Extension(q) = <<"m", "d">> /\ disk[q].data.head # "fm") => (\E m \in res.out : m.file_path = q /\ m.title = extract_title_from_filename(q) /\ m.content = disk[q].data.body)

\* A list left out a markdown file that has no block.
C13_Witness == res.op = "list" /\ \E p \in DOMAIN disk : Extension(p) = <<"m", "d">> /\ disk[p].data.head = "none" /\ ~(\E m \in res.out : m.file_path = p)


\* The operation of a call in an environment whose I/O steps all succeed.
Unfaulted(r) ==
  CASE r.op = "create" -> IF r.async THEN create_memo_async(St, r.title, r.content, now, NoFaults) ELSE create_memo(St, r.title, r.content, now, NoFaults)
    [] r.op = "update" -> IF r.async THEN update_memo_async(St, r.id, r.content, now, NoFaults) ELSE update_memo(St, r.id, r.content, now, NoFaults)
    [] OTHER -> IF r.async THEN delete_memo_async(St, r.id, now, NoFaults) ELSE delete_memo(St, r.id, now, NoFaults)

\* C14 (retry coverage): a temporary-file write, a rename or a remove of a
\* create, update or delete, synchronous or asynchronous, that fails on its
\* first attempt with a transient error is retried: the operation returns
\* what it returns when no step fails, and leaves the same files.
C14_TransientFailureIsRetried == [][(IsMutation(res') /\ res'.fault # NoFaults /\ \A k \in DOMAIN res'.fault : res'.fault[k] \in {"ok", "once"}) => (res'.status = Unfaulted(res').status /\ disk' = Unfaulted(res').st.disk)]_vars

\* An asynchronous create failed on a rename that would have succeeded when
\* tried again.
C14_Witness == res.op = "create" /\ res.async /\ res.fault.rename = "once" /\ res.status = "rename"


\* The kinds of I/O error that the retry policy takes as permanent.
PermanentKinds == { "NotFound", "InvalidInput", "InvalidData", "UnexpectedEof" }

\* C15 (fail fast): when an attempt fails with an I/O error of kind NotFound,
\* InvalidInput, InvalidData or UnexpectedEof, both retry functions return
\* that error with no further invocation and no further sleep; an attempt
\* that fails with an I/O error of any other kind is followed by a sleep and
\* another invocation as long as attempts remain.
C15_PermanentErrorsFailFast ==
  retry # NoRetry =>
    \A i \in 1..retry.calls :
      /\ retry.operation[i] \in PermanentKinds =>
           (retry.calls = i /\ retry.result = "Err" /\ retry.last_error = <<[kind |-> retry.operation[i], attempt |-> i]>> /\ Len(retry.sleeps) = i - 1)
      /\ (retry.operation[i] \notin PermanentKinds \cup { "Ok", "NonIo" } /\ i < retry.config.max_attempts) =>
           (retry.calls > i /\ Len(retry.sleeps) >= i)

\* With three attempts allowed, a transient failure was retried and the
\* NotFound of the second attempt was returned at once.
C15_Witness == retry # NoRetry /\ retry.calls = 2 /\ retry.config.max_attempts = 3 /\ retry.operation[1] = "Interrupted" /\ retry.operation[2] = "NotFound" /\ Len(retry.sleeps) = 1 /\ retry.result = "Err"

\* C16 (bound and outcome): with max_attempts = N the operation is invoked at
\* most N times; a call returns the value of the first attempt that succeeds
\* and invokes nothing after it; when every attempt fails with a transient
\* error the operation is invoked exactly N times, N-1 delays are slept and
\* the error of the last attempt is returned.
C16_BoundAndOutcome ==
  retry # NoRetry =>
    /\ retry.calls <= retry.config.max_attempts
    /\ \A i \in 1..retry.calls : retry.operation[i] = "Ok" => (retry.calls = i /\ retry.result = "Ok")
    /\ (\A j \in 1..retry.config.max_attempts : retry.operation[j] \notin PermanentKinds \cup { "Ok", "NonIo" }) =>
         /\ retry.calls = retry.config.max_attempts
         /\ Len(retry.sleeps) = retry.config.max_attempts - 1
         /\ retry.result = "Err"
         /\ retry.last_error = <<[kind |-> retry.operation[retry.config.max_attempts], attempt |-> retry.config.max_attempts]>>

\* A call with max_attempts = 0 made no attempt and panicked.
C16_Witness == retry # NoRetry /\ retry.config.max_attempts = 0 /\ retry.calls = 0 /\ retry.result = "panic"

\* C17 (backoff cap): the first delay slept is initial_delay, each later one
\* of the synchronous variant is the one before times the multiplier, capped
\* at max_delay, and no delay slept exceeds max_delay (synchronous) or
\* max_delay plus a tenth of it (asynchronous).
C17_BackoffCap ==
  retry # NoRetry =>
    /\ retry.sleeps # <<>> => retry.sleeps[1] = retry.config.initial_delay
    /\ ~retry.async => \A i \in 1..Len(retry.sleeps) : retry.sleeps[i] <= retry.config.max_delay
    /\ ~retry.async => \A k \in 2..Len(retry.sleeps) : retry.sleeps[k] = NextDelay(retry.config, retry.sleeps[k - 1])
    /\ retry.async => \A n \in 1..Len(retry.sleeps) : retry.sleeps[n] <= retry.config.max_delay + retry.config.max_delay \div 10

\* The synchronous variant slept an initial delay above max_delay.
C17_Witness == retry # NoRetry /\ ~retry.async /\ retry.sleeps # <<>> /\ retry.sleeps[1] > retry.config.max_delay


\* C18 (index dirty protocol): a create, update or delete that succeeds
\* leaves the index-dirty flag set; a search that finds the flag set replaces
\* the index by one of the memos of the current listing and clears the flag;
\* a search that finds the flag clear leaves the index as it is.
C18_DirtyProtocol ==
  [][/\ (IsMutation(res') /\ res'.status = "ok") => index_dirty'
     /\ (res'.op = "search" /\ index_dirty) => (index'.rebuilds = index.rebuilds + 1 /\ index'.memos = Shown(list_memos(St, now).out) /\ ~index_dirty')
     /\ (res'.op = "search" /\ ~index_dirty) => (index' = index /\ ~index_dirty')]_vars

\* A search rebuilt the index a second time, after a mutation that followed
\* the first rebuild, and the index holds a memo.
C18_Witness == res.op = "search" /\ index.rebuilds = 2 /\ index.memos # {} /\ ~index_dirty


\* C19 (no rebuild storm): of the searches that run concurrently while the
\* index is dirty, with no mutation in between, exactly one rebuilds the
\* index: a call that gets the write lock rebuilds only when the flag is
\* still set, so the index is rebuilt once.
C19_SingleRebuild == [][index' # index => (index_dirty /\ index.rebuilds = 0)]_vars

\* Two searches have each rebuilt the index of the same dirty episode.
C19_Witness == index.rebuilds = 2 /\ ~index_dirty /\ \A w \in Tasks : tasks[w].pc = "idle"


\* The .memoranda directories beneath the root.
MemorandaDirs(t) == { d \in t.dirs : IsMemoranda(d) }

\* C20 (storage root discovery): a create that succeeds writes its file into
\* a .memoranda directory beneath the root, the first that the walk finds; a
\* list returns the markdown files of every .memoranda directory beneath the
\* root; with no .memoranda directory a create fails with
\* NoMemorandaDirectories and the tree stays as it is.
C20_RootDiscovery ==
  [][/\ (res'.op = "create" /\ res'.status = "ok") =>
          (\E f \in res'.out : f.dir \in MemorandaDirs(tree) /\ f.dir = FindDirs(tree, res'.async)[1] /\ tree' = [tree EXCEPT !.files[f.dir] = @ \cup { f.name }])
     /\ res'.op = "list" => res'.out = UNION { { [dir |-> d, name |-> n] : n \in { g \in tree.files[d] : Extension(g) = <<"m", "d">> } } : d \in MemorandaDirs(tree) }
     /\ (res'.op = "create" /\ MemorandaDirs(tree) = {}) => (res'.status = "NoMemorandaDirectories" /\ tree' = tree)]_vars

\* An asynchronous list left out the file of a .memoranda directory that
\* lies inside another .memoranda directory.
C20_Witness == res.op = "list" /\ res.async /\ \E d \in tree.dirs : IsMemoranda(d) /\ tree.files[d] # {} /\ ~(\E f \in res.out : f.dir = d)

\* The memo an update of identity id starts from: the one its read returns.
ReadBefore(r) == (IF r.async THEN get_memo_async(St, r.id, now) ELSE get_memo(St, r.id, now)).out

\* C21 (update frame): a successful update returns the memo it read with only
\* the content and the updated-timestamp changed: the id, title, creation
\* timestamp, tags and file path are the same, the updated-timestamp did not
\* decrease and is at least the creation timestamp; and the file of every
\* other memo is untouched.
C21_UpdateFrame ==
  [][(res'.op = "update" /\ res'.status = "ok") =>
       /\ \E old \in ReadBefore(res'), new \in res'.out :
            /\ new.id = old.id /\ new.title = old.title /\ new.created_at = old.created_at
            /\ new.tags = old.tags /\ new.file_path = old.file_path
            /\ new.content = res'.content
            /\ new.updated_at >= old.updated_at /\ new.updated_at >= new.created_at
       /\ \A p \in DOMAIN disk : (disk[p].data.head = "fm" /\ disk[p].data.fm[1].id # res'.id) => (p \in DOMAIN disk' /\ disk'[p] = disk[p])]_vars

\* C22 (error classes): a create or update returns a Validation error only
\* when its title or content breaks a length rule; a save or delete whose file
\* operation still fails after the retries returns a FileOperation error; an
\* update or delete of an identity that no file carries returns MemoNotFound.
C22_ErrorClasses ==
  [][IsMutation(res') =>
       /\ ErrorClass(res') = "Validation" => (res'.op = "create" /\ ~validate_title(res'.title)) \/ (res'.op \in {"create", "update"} /\ ~validate_content(res'.content))
       /\ res'.status \in {"write", "rename", "remove"} => ErrorClass(res') = "FileOperation"
       /\ (res'.op \in {"update", "delete"} /\ FilesOf(disk, res'.id) = {}) => ErrorClass(res') = "NotFound"]_vars

\* A synchronous update of valid content whose rename failed on every attempt
\* returned a Validation error.
C22_Witness == res.op = "update" /\ ~res.async /\ res.fault.rename = "always" /\ res.status = "rename" /\ validate_content(res.content) /\ ErrorClass(res) = "Validation"

\* The leaf that the claim gives one side of an operator: a quoted side is a
\* Phrase of the text between the quotes, a side with * or ? a Wildcard, any
\* other a Word, each of the side without the blanks around it.
IsLeafOf(leaf, side) ==
  LET text == TrimOf(side, {" "})
  IN /\ leaf.kind = (IF IsQuoted(text) THEN "Phrase" ELSE IF HasWildcard(text) THEN "Wildcard" ELSE "Word")
     /\ leaf.text = (IF IsQuoted(text) THEN TrimOf(text, {"\""}) ELSE text)

\* The places of a text where an operator stands between two blanks.
PlacesOf(text, word) == { i \in 1..(Len(text) - 2) : text[i] = " " /\ text[i + 1] = word /\ text[i + 2] = " " }

\* The order of classification of C24, without its last sentence.
ParsedInOrder(text, parsed) ==
  LET word == IF PlacesOf(text, "AND") # {} THEN "AND" ELSE IF PlacesOf(text, "OR") # {} THEN "OR" ELSE "NOT"
      operator == IF word = "AND" THEN "And" ELSE IF word = "OR" THEN "Or" ELSE "Not"
  IN IF PlacesOf(text, word) # {}
       THEN /\ parsed.terms = <<>> /\ parsed.phrase = <<>> /\ Len(parsed.boolean_query) = 1
            /\ parsed.boolean_query[1].kind = "Boolean"
            /\ parsed.boolean_query[1].operator = operator
            /\ \E pos \in PlacesOf(text, word) :
                 /\ \A other \in PlacesOf(text, word) : pos <= other
                 /\ IsLeafOf(parsed.boolean_query[1].left, SubSeq(text, 1, pos - 1))
                 /\ IsLeafOf(parsed.boolean_query[1].right, SubSeq(text, pos + 3, Len(text)))
       ELSE IF IsQuoted(text)
              THEN parsed = [terms |-> <<>>, phrase |-> <<TrimOf(text, {"\""})>>, boolean_query |-> <<>>]
              ELSE IF HasWildcard(text)
                     THEN parsed = [terms |-> <<>>, phrase |-> <<>>, boolean_query |-> <<[kind |-> "Wildcard", text |-> text]>>]
                     ELSE LET Runs == { r \in (1..Len(text)) \X (1..Len(text)) :
                                                 /\ r[1] <= r[2]
                                                 /\ \A k \in r[1]..r[2] : text[k] # " "
                                                 /\ (r[1] = 1 \/ text[r[1] - 1] = " ")
                                                 /\ (r[2] = Len(text) \/ text[r[2] + 1] = " ") }
                          IN /\ parsed.phrase = <<>> /\ parsed.boolean_query = <<>>
                             /\ Len(parsed.terms) = Cardinality(Runs)
                             /\ \A r \in Runs : parsed.terms[1 + Cardinality({ q \in Runs : q[1] < r[1] })] = SubSeq(text, r[1], r[2])

\* How many of boolean_query, phrase and terms a parsed query populates.
Populated(parsed) == Cardinality({ f \in {"boolean_query", "phrase", "terms"} : parsed[f] # <<>> })

\* C24 as stated (query parse precedence): a text with " AND ", " OR " or
\* " NOT " becomes one Boolean node of the first of these operators present,
\* split at its first occurrence, each side one leaf; any other text is a
\* phrase when quoted, else a bare Wildcard when it has * or ?, else the flat
\* terms between its blanks; and exactly one of boolean_query, phrase and
\* terms is populated.
C24_ParsePrecedence == lookup # <<>> => (ParsedInOrder(lookup.text, lookup.parsed) /\ Populated(lookup.parsed) = 1)

\* C24 as amended: the same order of classification; at most one of
\* boolean_query, phrase and terms is populated, and exactly one unless the
\* text is empty or all blanks, for which none is.
C24_ParsePrecedenceOfText == lookup # <<>> => (ParsedInOrder(lookup.text, lookup.parsed) /\ Populated(lookup.parsed) = (IF \A i \in 1..Len(lookup.text) : lookup.text[i] = " " THEN 0 ELSE 1))

\* A text with both OR and AND, OR first, was split at AND.
C24_Witness == lookup # <<>> /\ lookup.text = <<" ", "OR", " ", "AND", " ">> /\ lookup.parsed.boolean_query # <<>> /\ lookup.parsed.boolean_query[1].operator = "And" /\ lookup.parsed.boolean_query[1].left.text = <<"OR">>

\* The memos of the listing searched whose title or content holds the text of
\* a Word or Phrase leaf, in either case.
MatchedBy(leaf) == { i \in 1..Len(lookup.memos) : ContainsLower(lookup.memos[i].title, leaf.text) \/ ContainsLower(<<lookup.memos[i].content.text>>, leaf.text) }

\* The memos of the listing that the search returned.
ReturnedMemos == { i \in 1..Len(lookup.memos) : \E k \in 1..Len(lookup.results) : lookup.results[k].memo = lookup.memos[i] }

\* C23 (boolean query semantics): for a query parsed into a AND b, a OR b or
\* a NOT b, with Word or Phrase leaves, the memos returned are those matched
\* by both leaves, by either leaf, or by a and not by b; and a memo returned
\* for a NOT b has the score it has for a alone.
C23_BooleanSemantics ==
  (lookup # <<>> /\ lookup.parsed.boolean_query # <<>> /\ lookup.parsed.boolean_query[1].kind = "Boolean") =>
    LET node == lookup.parsed.boolean_query[1]
    IN /\ node.operator = "And" => ReturnedMemos = MatchedBy(node.left) \cap MatchedBy(node.right)
       /\ node.operator = "Or" => ReturnedMemos = MatchedBy(node.left) \cup MatchedBy(node.right)
       /\ node.operator = "Not" => ReturnedMemos = MatchedBy(node.left) \ MatchedBy(node.right)
       /\ node.operator = "Not" => \A k \in 1..Len(lookup.results) : <<lookup.results[k].score>> = score_memo_with_config(lookup.results[k].memo, [NewQuery EXCEPT !.boolean_query = <<node.left>>], FALLBACK_RECENCY_BOOST_DAYS, now)

\* A search for a NOT b over a memo with a and b and a memo with a alone
\* returned the second only.
C23_Witness ==
  /\ lookup # <<>> /\ lookup.parsed.boolean_query # <<>> /\ lookup.parsed.boolean_query[1].kind = "Boolean" /\ lookup.parsed.boolean_query[1].operator = "Not"
  /\ Len(lookup.memos) = 2 /\ Len(lookup.results) = 1 /\ lookup.results[1].memo = lookup.memos[2]
  /\ 1 \in MatchedBy(lookup.parsed.boolean_query[1].left) \cap MatchedBy(lookup.parsed.boolean_query[1].right)

\* The score, in halves, that C25 gives a memo for one term or phrase: the
\* title's part when the title holds it plus the content's part when the
\* content holds it.
FlatScore(memo, text, title_score, content_score) == (IF ContainsLower(memo.title, text) THEN title_score ELSE 0) + (IF ContainsLower(<<memo.content.text>>, text) THEN content_score ELSE 0)

\* The score of a Word or Phrase leaf as that of the flat term or phrase.
LeafScore(memo, leaf) == IF leaf.kind = "Phrase" THEN FlatScore(memo, leaf.text, 6, 3) ELSE FlatScore(memo, leaf.text, 4, 2)

\* The score before the boost that C25 gives a memo: the sum over the flat
\* terms, the phrase, and the leaves of the boolean node that count (both of
\* AND, those that match of OR, the left one of NOT).
ClaimedScore(memo, parsed) ==
  LET RECURSIVE OfTerms(_)
      OfTerms(terms) == IF terms = <<>> THEN 0 ELSE FlatScore(memo, Head(terms), 4, 2) + OfTerms(Tail(terms))
      node == parsed.boolean_query[1]
  IN OfTerms(parsed.terms)
       + (IF parsed.phrase = <<>> THEN 0 ELSE FlatScore(memo, parsed.phrase[1], 6, 3))
       + (IF parsed.boolean_query = <<>> \/ node.kind # "Boolean" THEN 0 ELSE LeafScore(memo, node.left) + (IF node.operator = "Not" THEN 0 ELSE LeafScore(memo, node.right)))

\* C25 (leaf scoring): a flat term adds 2.0 for the title and 1.0 for the
\* content, both when both hold it, a phrase 3.0 and 1.5; a Word or Phrase
\* leaf of a boolean query adds what the same flat term or phrase would; a
\* memo that no term, phrase or leaf gives a score is not returned.  (The
\* returned score is the sum with the recency boost.)
C25_LeafScoring ==
  (lookup # <<>> /\ (lookup.parsed.boolean_query = <<>> \/ lookup.parsed.boolean_query[1].kind = "Boolean")) =>
    \A k \in 1..Len(lookup.results) :
      /\ ClaimedScore(lookup.results[k].memo, lookup.parsed) > 0
      /\ lookup.results[k].score = RecencyBoosted(ClaimedScore(lookup.results[k].memo, lookup.parsed), num_days(now - lookup.results[k].memo.created_at), FALLBACK_RECENCY_BOOST_DAYS)

\* A search for a AND b returned a memo whose title and content both hold a.
C25_Witness ==
  /\ lookup # <<>> /\ lookup.text = <<"a", " ", "AND", " ", "b">> /\ Len(lookup.results) = 1
  /\ lookup.results[1].memo.title = <<"A", "b">> /\ lookup.results[1].memo.content.text = "a"

\* C26 (result ordering): the results are in the order of descending score,
\* those of equal score in the order of descending creation time, and no memo
\* is returned twice.
C26_ResultOrdering ==
  lookup # <<>> =>
    \A i \in 1..Len(lookup.results), j \in 1..Len(lookup.results) :
      i < j =>
        /\ CmpScore(lookup.results[i].score, lookup.results[j].score) >= 0
        /\ CmpScore(lookup.results[i].score, lookup.results[j].score) = 0 => lookup.results[i].memo.created_at >= lookup.results[j].memo.created_at
        /\ lookup.results[i].memo.id # lookup.results[j].memo.id

\* Two memos of equal score came back with the one created later first,
\* against the order of the listing.
C26_Witness ==
  /\ lookup # <<>> /\ Len(lookup.results) = 2
  /\ CmpScore(lookup.results[1].score, lookup.results[2].score) = 0
  /\ lookup.results[1].memo.created_at > lookup.results[2].memo.created_at
  /\ lookup.results[1].memo = lookup.memos[2]

\* The age of a result's memo at the search, in days.
AgeInDays(result) == num_days(now - result.memo.created_at)

\* C27 (recency boost): the score of every result is its accumulated score
\* times 1 + 1 / (1 + age / 365), age in days; the factor is greater than 1
\* and at most 2; and of two results of equal accumulated score the one
\* created later has a score at least as great.
C27_RecencyBoost ==
  lookup # <<>> =>
    /\ \A k \in 1..Len(lookup.results) :
         LET result == lookup.results[k]
             accumulated == Accumulated(result.memo, lookup.parsed).score
         IN /\ result.score.den # 0 /\ FALLBACK_RECENCY_BOOST_DAYS + AgeInDays(result) # 0
            /\ result.score.num * 2 * (FALLBACK_RECENCY_BOOST_DAYS + AgeInDays(result)) = accumulated * (2 * FALLBACK_RECENCY_BOOST_DAYS + AgeInDays(result)) * result.score.den
            /\ 2 * result.score.num > accumulated * result.score.den
            /\ 2 * result.score.num <= 2 * accumulated * result.score.den
    /\ \A i \in 1..Len(lookup.results), j \in 1..Len(lookup.results) :
         (/\ Accumulated(lookup.results[i].memo, lookup.parsed).score = Accumulated(lookup.results[j].memo, lookup.parsed).score
          /\ lookup.results[i].memo.created_at > lookup.results[j].memo.created_at) => CmpScore(lookup.results[i].score, lookup.results[j].score) >= 0

\* A memo dated 366 days ahead of the clock was returned together with a
\* memo of the same title and content created a day before the search.
C27_Witness ==
  /\ lookup # <<>> /\ Len(lookup.results) = 2
  /\ \E i \in 1..2, j \in 1..2 :
       /\ AgeInDays(lookup.results[i]) = -366 /\ AgeInDays(lookup.results[j]) = 1
       /\ lookup.results[i].memo.title = lookup.results[j].memo.title /\ lookup.results[i].memo.content = lookup.results[j].memo.content

\* C28 (the index is advisory): what search_memos returns (the memos, their
\* scores, their order) is what it returns with an empty index, with the
\* index as it is and with an index rebuilt from the listing, whether the
\* flag is set or not; and every memo returned is, with its content, in a
\* file of the directory at the time of the search.
C28_IndexIsAdvisory ==
  [][res'.op = "search" =>
       /\ \E listed \in Orderings(list_memos(St, now).out) :
            \A is_dirty \in BOOLEAN, held \in { NoIndex, index, RebuildIndex(index, list_memos(St, now).out).index } :
              search_memos(is_dirty, held, res'.title, listed, now).out = res'.out
       /\ \A k \in 1..Len(res'.out) :
            \E p \in DOMAIN disk : /\ disk[p].data.head = "fm"
                                   /\ disk[p].data.fm[1].id = res'.out[k].memo.id
                                   /\ disk[p].data.fm[1].content = res'.out[k].memo.content]_vars

\* A search returned a memo while the index, not marked dirty, held another
\* content of it.
C28_Witness ==
  /\ res.op = "search" /\ ~index_dirty /\ Len(res.out) > 0
  /\ \E held \in index.memos : held.id = res.out[1].memo.id /\ held.content # res.out[1].memo.content

Listed(st, at) == { [id |-> m.id, title |-> m.title, content |-> m.content] : m \in list_memos(st, at).out }

\* C30 (create never destroys a memo): a successful create, also one whose
\* title is that of an earlier memo or is mapped to the same file name,
\* leaves every memo that was listed before it listed and readable with its
\* title and content, and the list has one entry more than before.
C30_CreateKeepsMemos ==
  [][(res'.op = "create" /\ res'.status = "ok") =>
       /\ Listed(St, now) \subseteq Listed(St', now')
       /\ \A m \in Listed(St, now) : \E g \in get_memo(St', m.id, now').out : g.title = m.title /\ g.content = m.content
       /\ Cardinality(Listed(St', now')) = Cardinality(Listed(St, now)) + 1]_vars

\* Two creates succeeded one after the other and one memo is listed.
C30_Witness == res.op = "create" /\ res.status = "ok" /\ steps = 2 /\ next_id = 3 /\ Cardinality(Listed(St, now)) = 1

\* C30 for a create whose file name is not empty and is that of no listed
\* memo's file.
C30_CreateOfNewFileName ==
  [][(res'.op = "create" /\ res'.status = "ok" /\ sanitize_filename(res'.title) # <<>> /\ \A m \in list_memos(St, now).out : \A g \in res'.out : m.file_path # g.file_path) =>
       /\ Listed(St, now) \subseteq Listed(St', now')
       /\ \A m \in Listed(St, now) : \E g \in get_memo(St', m.id, now').out : g.title = m.title /\ g.content = m.content
       /\ Cardinality(Listed(St', now')) = Cardinality(Listed(St, now)) + 1]_vars

\* C31 (delete has no collateral effect): a successful delete of identity id
\* removes only a file whose stored identity is id, and every other memo
\* that was listed before the delete is listed after it with the same
\* content, also when the delete found the memo and its path in the cache.
C31_DeleteFrame ==
  [][(res'.op = "delete" /\ res'.status = "ok") =>
       /\ (DOMAIN disk \ DOMAIN disk') \subseteq FilesOf(disk, res'.id)
       /\ \A m \in Listed(St, now) : m.id # res'.id => m \in Listed(St', now')]_vars

\* A delete that found its memo in the cache removed a file that held
\* another memo.
C31_Witness == res.op = "delete" /\ res.status = "ok" /\ res.async /\ res.id = 1 /\ next_id = 3 /\ DOMAIN disk = {} /\ steps = 3

\* C31 for the synchronous delete, which always scans the directory.
C31_DeleteFrameOfScan ==
  [][(res'.op = "delete" /\ res'.status = "ok" /\ ~res'.async) =>
       /\ (DOMAIN disk \ DOMAIN disk') \subseteq FilesOf(disk, res'.id)
       /\ \A m \in Listed(St, now) : m.id # res'.id => m \in Listed(St', now')]_vars

\* The updates that are under way.
Running == { w \in Tasks : tasks[w].pc # "idle" }

\* C32 (cache and disk agree after concurrent updates): once every
\* update_memo_async on memo 1 has returned, with the file of the memo
\* complete on disk, a get_memo_async of it returns the content that is in
\* the file.
C32_CacheAgreesWithDisk ==
  [][(res'.op = "get" /\ res'.async /\ res'.id = 1 /\ Running = {} /\ FilesWithId(disk, 1) # {}) =>
       (res'.status = "ok" /\ \A p \in FilesWithId(disk, 1) : \E g \in res'.out : g.content = disk[p].data.body)]_vars

\* After two updates, both returned, a get_memo_async served from the cache
\* returned a content that is not the one in the file.
C32_Witness == res.op = "get" /\ res.async /\ res.id = 1 /\ res.status = "ok" /\ Running = {} /\ steps = 2 /\ \E p \in FilesWithId(disk, 1) : \E g \in res.out : g.content # disk[p].data.body

\* C33 (concurrent writers to one file): with saves to the file of memo 1
\* running concurrently, every update of the memo with a valid content
\* returns success, none fails because another call renamed the temporary
\* file they share, and once all have returned the file holds the complete
\* content of one of them.
C33_ConcurrentSaves ==
  /\ (res.op = "update" /\ res.id = 1 /\ validate_content(res.content)) => res.status = "ok"
  /\ Running = {} => \E p \in FilesWithId(disk, 1) : disk[p].data.body \in Contents

\* An update failed at its rename: the temporary file was gone, renamed by
\* another update.
C33_Witness == res.op = "update" /\ res.id = 1 /\ res.status = "rename" /\ Running = {} /\ \E p \in FilesWithId(disk, 1) : disk[p].data.body \in Contents

\* C34 (no lost index invalidation): whenever the index-dirty flag is clear
\* and no search is rebuilding the index, the index holds the memos of a
\* listing made after every create, update and delete that has returned: the
\* memos a listing returns now.
C34_NoLostInvalidation == (~index_dirty /\ \A w \in Tasks : tasks[w].pc # "rebuild") => index.memos = Shown(list_memos(St, now).out)

\* A search listed the memos, an update returned, and the search rebuilt the
\* index from its listing and cleared the flag.
C34_Witness == ~index_dirty /\ (\A w \in Tasks : tasks[w].pc = "idle") /\ res.op = "search" /\ index.rebuilds = 1 /\ steps = 1 /\ index.memos # Shown(list_memos(St, now).out)

\* C35 (read racing with delete): a get_memo or get_memo_async that runs
\* beside a delete returns the memo or none, never an I/O error, also when
\* the file is removed between the identity check and the full load.
C35_ReadRacingDelete == res.op = "get" => (res.status = "ok" /\ \A m \in res.out : m.id = res.id)

\* A read found the file of the memo, a delete removed the file, and the read
\* went on to load it.
C35_Witness == res.op = "get" /\ res.id = 1 /\ res.status = "read" /\ DOMAIN disk = {} /\ steps = 1

\* The identities of a set of memos.
IdsOf(memos) == { m.id : m \in memos }

\* What makes a listed memo addressable in the store as it is: a read of its
\* id returns it, and an update and a delete of its id do not answer
\* NotFound.
Addressable(m) ==
  /\ \E g \in get_memo(St, m.id, now).out : g.title = m.title /\ g.content = m.content /\ g.file_path = m.file_path
  /\ update_memo(St, m.id, [text |-> "x", len |-> 1], now, NoFaults).status # "NotFound"
  /\ delete_memo(St, m.id, now, NoFaults).status # "NotFound"

\* C36 (listed memos are addressable): right after a list, every memo it
\* returned is addressable through its id, and a second list returns the
\* same ids; also for the memos made from files without a metadata block.
C36_ListedAreAddressable ==
  (res.op = "list" /\ res.status = "ok") =>
    /\ \A m \in res.out : Addressable(m)
    /\ IdsOf(list_memos(St, now).out) = IdsOf(res.out)

\* A list returned a memo made from a file without a usable metadata block,
\* and a read of its id returns none.
C36_Witness == res.op = "list" /\ res.status = "ok" /\ \E m \in res.out : FilesOf(disk, m.id) = {} /\ get_memo(St, m.id, now).out = {}

\* C36 for the listed memos whose identity is stored in their file, and in
\* no other.
C36_StoredIdentityIsAddressable ==
  (res.op = "list" /\ res.status = "ok") =>
    \A m \in res.out : FilesWithId(disk, m.id) = {m.file_path} => Addressable(m)

\* char::is_control among the characters of the titles.
IsControl(c) == c \in ControlChars \cup { "U+007F" }

\* A path within the directory that names a direct child of it: one
\* component, which is neither the directory itself nor its parent.
DirectChild(path) == path # <<>> /\ path # <<".">> /\ path # <<".", ".">> /\ \A i \in 1..Len(path) : path[i] \notin { "/", "\\" }

\* C37 (path containment): for every title that validation accepts, the
\* sanitized file name holds no path separator, no control character and
\* none of * ? " < > | :, and neither starts nor ends with a dot; the file
\* that create writes and its temporary file are direct children of the
\* primary .memoranda directory; and the file has the extension md, by which
\* list and read find it.
C37_PathContainment ==
  sanitized # <<>> =>
    /\ \A i \in 1..Len(sanitized.filename) : sanitized.filename[i] \notin ReservedChars /\ ~IsControl(sanitized.filename[i])
    /\ sanitized.filename # <<>> => (Head(sanitized.filename) # "." /\ sanitized.filename[Len(sanitized.filename)] # ".")
    /\ DirectChild(sanitized.file_path)
    /\ DirectChild(sanitized.temp_file_path)
    /\ Extension(sanitized.file_path) = <<"m", "d">>

\* The title ".." is accepted, and its file, .md, has no extension.
C37_Witness == sanitized # <<>> /\ sanitized.title = <<".", ".">> /\ sanitized.file_path = DotMd /\ Extension(sanitized.file_path) = <<>>

\* C37 for the titles that hold another character than the dot, and no
\* U+007F.
C37_PathContainmentOfNames ==
  (sanitized # <<>> /\ sanitized.filename # <<>> /\ \A i \in 1..Len(sanitized.title) : sanitized.title[i] # "U+007F") =>
    /\ \A i \in 1..Len(sanitized.filename) : sanitized.filename[i] \notin ReservedChars /\ ~IsControl(sanitized.filename[i])
    /\ Head(sanitized.filename) # "." /\ sanitized.filename[Len(sanitized.filename)] # "."
    /\ DirectChild(sanitized.file_path)
    /\ DirectChild(sanitized.temp_file_path)
    /\ Extension(sanitized.file_path) = <<"m", "d">>

\* C38 (every request is answered): every message with a method and an id is
\* answered with one response, a result or an error, that carries the id,
\* whatever the method and the params; a message without a method is not
\* answered.
C38_EveryRequestAnswered ==
  [][/\ (res'.op # "-" /\ res'.op # "new" /\ res'.id # 0) => (rpc'.response.kind \in {"result", "error"} /\ rpc'.response.id = res'.id)
     /\ res'.op = "-" => rpc'.response.kind = "none"]_vars

\* After initialize, a tools/call with an id whose params name no tool got
\* no response.
C38_Witness == rpc.initialized /\ res.op = "tools/call" /\ res.id = 1 /\ res.title = <<"unnamed">> /\ rpc.response.kind = "none"

\* C38 for every message but a tools/call without params or tool name.
C38_AnsweredWithToolName ==
  [][/\ (res'.op # "-" /\ res'.op # "new" /\ res'.id # 0 /\ ~(res'.op = "tools/call" /\ res'.title \in { <<"-">>, <<"unnamed">> })) => (rpc'.response.kind \in {"result", "error"} /\ rpc'.response.id = res'.id)
     /\ res'.op = "-" => rpc'.response.kind = "none"]_vars

\* C39 (cache warm-up): warm_cache returns the number of memos that a list
\* returns, and a get_memo_async that follows it, for one of these memos, is
\* served from the memo cache: a hit whose validity check succeeds, with no
\* scan of the directories.
C39_WarmCacheServes ==
  [][/\ (res'.op = "warm" /\ res'.status = "ok") => (res'.id = Cardinality(list_memos(St, now).out) /\ IdsOf(res'.out) \subseteq DOMAIN cache')
     /\ (res.op = "warm" /\ res.status = "ok" /\ res'.op = "get" /\ res'.async /\ res'.id \in IdsOf(res.out)) => (res'.status = "ok" /\ res'.via = "valid" /\ res'.out \subseteq res.out /\ res'.out # {})]_vars

\* After a warm_cache of one memo, a get_memo_async of it found the memo in
\* the cache, found no metadata for its file, and scanned the directory.
C39_Witness == res.op = "get" /\ res.async /\ res.status = "ok" /\ res.via = "stale" /\ res.out # {} /\ steps = 2 /\ next_id = 2

\* C39 for the memos whose file has an entry in the metadata cache when the
\* get_memo_async starts.
C39_WarmCacheServesWithMetadata ==
  [][/\ (res'.op = "warm" /\ res'.status = "ok") => (res'.id = Cardinality(list_memos(St, now).out) /\ IdsOf(res'.out) \subseteq DOMAIN cache')
     /\ (res.op = "warm" /\ res.status = "ok" /\ res'.op = "get" /\ res'.async /\ \E m \in res.out : m.id = res'.id /\ m.file_path \in DOMAIN meta) => (res'.status = "ok" /\ res'.via = "valid" /\ res'.out \subseteq res.out /\ res'.out # {})]_vars

\* C40 (same primary directory in both variants): on every tree beneath the
\* root and in every order of enumeration, find_memoranda_dirs and
\* find_memoranda_dirs_async return the same directories in the same order,
\* and a create of either variant writes into the first of them.
C40_SameDirectories ==
  [][/\ find_memoranda_dirs(tree) = find_memoranda_dirs_async(tree)
     /\ (res'.op = "create" /\ res'.status = "ok") => \A f \in res'.out : f.dir = find_memoranda_dirs(tree)[1] /\ f.dir = find_memoranda_dirs_async(tree)[1]]_vars

\* On a tree where no .memoranda directory lies inside another, a
\* create_memo_async wrote into a directory that is not the first of
\* find_memoranda_dirs.
C40_Witness == res.op = "create" /\ res.async /\ res.status = "ok" /\ (\A d \in MemorandaDirs(tree) : \A i \in 1..(Len(d) - 1) : d[i] # ".memoranda") /\ \E f \in res.out : f.dir # find_memoranda_dirs(tree)[1]

\* C40 on the trees with at most one .memoranda directory.
C40_SameDirectoryWhenOne ==
  [][Cardinality(MemorandaDirs(tree)) <= 1 =>
       /\ find_memoranda_dirs(tree) = find_memoranda_dirs_async(tree)
       /\ (res'.op = "create" /\ res'.status = "ok") => \A f \in res'.out : f.dir = find_memoranda_dirs(tree)[1] /\ f.dir = find_memoranda_dirs_async(tree)[1]]_vars

====
